---- MODULE Spec2Model ----
(***************************************************************************)
(* A model of the Clockify report generator (main.py, streamlit_app.py,    *)
(* config.py, rotate_secrets.py).                                          *)
(* Strings the code inspects character by character are sequences of       *)
(* one-character strings; opaque names are TLA+ strings.                    *)
(***************************************************************************)
EXTENDS Integers, Sequences, FiniteSets, TLC

VARIABLES
    dateStr,      \* to_iso_format: the date_str argument (characters)
    dateShape,    \* how the operator's text was put together (tokens, separators)
    curYear,      \* datetime.now().year
    isoStart,     \* outcome of to_iso_format(date_str, is_end=False)
    isoEnd,       \* outcome of to_iso_format(date_str, is_end=True)
    nowAt,        \* the value of datetime.now().year each call read
    gPc,          \* get_entries_by_date: the fetch it is in, or how it ended
    faPage,       \* fetch_all: page
    faItems,      \* fetch_all: all_items
    served,       \* the list the service is paging out for the current fetch
    reqLog,       \* every request sent: endpoint, query, response
    projects,     \* get_entries_by_date: projects
    clients,      \* get_entries_by_date: clients
    users,        \* get_entries_by_date: users
    userIdx,      \* get_entries_by_date: position of the for loop over users
    all_frames,   \* get_entries_by_date: all_frames
    rawSeen,      \* the raw entries behind the rows, as the service sent them
    result,       \* the table get_entries_by_date returned, if it returned
    reportVia,    \* which program laid out a report from the table, if any
    reportRows,   \* data_rows: the rows handed to the PDF generator
    df_date,      \* the loaded table a selection starts from
    selVia,       \* the selection path in use: get_data, the CLI loop, the wizard
    selPc,        \* where that path stands (which prompt, which wizard step)
    choice_client,      \* the client typed, chosen or passed as argument
    choice_project,     \* the project line typed or passed as argument
    selected_name,      \* filter_by_client_inter: selected_name
    client_ids,         \* filter_by_client_inter: client_ids
    df_client,          \* the rows of the selected client
    projects_in_client, \* the project names offered for that client
    selected_projects,  \* the project names selected
    df_proj,            \* df_proj / df_selected: the rows selected for the report
    selected_all_projects, \* session_state["selected_all_projects"]
    editable_table,     \* session_state["editable_table"]
    manual_row,         \* session_state["manual_row"]
    pdf_bytes,          \* the document generated last, if any
    pdf_filename,       \* the file name the document is written or offered under
    authenticated,      \* session_state["authenticated"]
    confirmed_period,   \* session_state["confirmed_period"]
    data_loaded,        \* session_state["data_loaded"]
    date_range,         \* what the date input of the wizard hands over
    session,            \* session_state: username, api_key, workspace_id
    secrets,            \* .streamlit/secrets.toml: the tables [auth], [users]
    config,             \* module config: API_KEY, WORKSPACE_ID as bound on import
    web_request,        \* the wizard's last request for time entries
    rotated,            \* update_secrets_for_user: the user and the password returned
    cliPc,              \* where the command-line program stands
    raw_start,          \* choose_period: raw_start as typed
    raw_end,            \* choose_period: raw_end as typed
    start_iso,          \* __main__: start_iso
    end_iso,            \* __main__: end_iso
    exit_status         \* the status the command-line process ended with

dateVars == <<dateStr, dateShape, curYear, isoStart, isoEnd, nowAt>>

fetchVars == <<gPc, faPage, faItems, served, reqLog, projects, clients, users,
               userIdx, all_frames, rawSeen, result, reportVia, reportRows>>

selVars == <<df_date, selVia, selPc, choice_client, choice_project, selected_name,
             client_ids, df_client, projects_in_client, selected_projects, df_proj>>

repVars == <<selected_all_projects, editable_table, manual_row,
             pdf_bytes, pdf_filename>>

wizVars == <<authenticated, confirmed_period, data_loaded, date_range, session,
             secrets, config, web_request, rotated>>

cliVars == <<cliPc, raw_start, raw_end, start_iso, end_iso, exit_status>>

vars == <<dateVars, fetchVars, selVars, repVars, wizVars, cliVars>>

(***************************************************************************)
(* Characters and strings                                                  *)
(***************************************************************************)
Digits == {"0", "1", "2", "3", "4", "5", "6", "7", "8", "9"}

DigitVal(c) ==
    CASE c = "0" -> 0 [] c = "1" -> 1 [] c = "2" -> 2 [] c = "3" -> 3
      [] c = "4" -> 4 [] c = "5" -> 5 [] c = "6" -> 6 [] c = "7" -> 7
      [] c = "8" -> 8 [] c = "9" -> 9

DigitChar(n) ==
    CASE n = 0 -> "0" [] n = 1 -> "1" [] n = 2 -> "2" [] n = 3 -> "3"
      [] n = 4 -> "4" [] n = 5 -> "5" [] n = 6 -> "6" [] n = 7 -> "7"
      [] n = 8 -> "8" [] n = 9 -> "9"

\* the printable ASCII characters in code order, blank (32) to tilde (126)
Ascii ==
    <<" ", "!", "<quote>", "#", "$", "%", "&", "'", "(", ")", "*", "+",
       ",", "-", ".", "/", "0", "1", "2", "3", "4", "5", "6", "7",
       "8", "9", ":", ";", "<", "=", ">", "?", "@", "A", "B", "C",
       "D", "E", "F", "G", "H", "I", "J", "K", "L", "M", "N", "O",
       "P", "Q", "R", "S", "T", "U", "V", "W", "X", "Y", "Z", "[",
       "<backslash>", "]", "^", "_", "<backtick>", "a", "b", "c", "d", "e", "f", "g",
       "h", "i", "j", "k", "l", "m", "n", "o", "p", "q", "r", "s",
       "t", "u", "v", "w", "x", "y", "z", "{", "|", "}", "~" >>

\* ord()
CharOrd(c) == 31 + (CHOOSE i \in DOMAIN Ascii : Ascii[i] = c)

IsDigits(s) == \A i \in DOMAIN s : s[i] \in Digits

RECURSIVE ToInt(_)
ToInt(s) ==
    IF s = <<>> THEN 0
    ELSE 10 * ToInt(SubSeq(s, 1, Len(s) - 1)) + DigitVal(s[Len(s)])

\* Python's comparison of two str values (lexicographic by code point)
RECURSIVE StrLess(_, _)
StrLess(a, b) ==
    IF b = <<>> THEN FALSE
    ELSE IF a = <<>> THEN TRUE
    ELSE IF CharOrd(Head(a)) # CharOrd(Head(b))
         THEN CharOrd(Head(a)) < CharOrd(Head(b))
    ELSE StrLess(Tail(a), Tail(b))

\* str.strip(): leading and trailing blanks removed
RECURSIVE LStrip(_)
LStrip(s) ==
    IF s # <<>> /\ Head(s) = " " THEN LStrip(Tail(s)) ELSE s

RECURSIVE RStrip(_)
RStrip(s) ==
    IF s # <<>> /\ s[Len(s)] = " " THEN RStrip(SubSeq(s, 1, Len(s) - 1)) ELSE s

Strip(s) == RStrip(LStrip(s))

\* "%02d" and "%04d"
Pad2(n) == <<DigitChar((n \div 10) % 10), DigitChar(n % 10)>>
Pad4(n) == <<DigitChar((n \div 1000) % 10), DigitChar((n \div 100) % 10)>> \o Pad2(n)

(***************************************************************************)
(* to_iso_format (main.py)                                                 *)
(***************************************************************************)
DateSeps == {".", "-", "/"}

NoMatch == [matched |-> FALSE, d |-> <<>>, mo |-> <<>>, y |-> <<>>]

\* re.match(r'^(\d{1,2})[.\-/](\d{1,2})(?:[.\-/](\d{4}))?$', date_str)
DayMonthRegex(s) ==
    LET n == Len(s)
        fits(i, j, y) ==
            /\ n = i + 1 + j + (IF y THEN 5 ELSE 0)
            /\ IsDigits(SubSeq(s, 1, i))
            /\ s[i + 1] \in DateSeps
            /\ IsDigits(SubSeq(s, i + 2, i + 1 + j))
            /\ y => /\ s[i + j + 2] \in DateSeps
                    /\ IsDigits(SubSeq(s, i + j + 3, n))
        cands == {c \in (1..2) \X (1..2) \X BOOLEAN : fits(c[1], c[2], c[3])}
    IN  IF cands = {} THEN NoMatch
        ELSE LET c == CHOOSE c \in cands : TRUE
             IN  [matched |-> TRUE,
                  d  |-> SubSeq(s, 1, c[1]),
                  mo |-> SubSeq(s, c[1] + 2, c[1] + 1 + c[2]),
                  y  |-> IF c[3] THEN SubSeq(s, c[1] + c[2] + 3, n) ELSE <<>>]

\* strptime's pattern for %m: 1[0-2]|0[1-9]|[1-9]
MonthDirective(t) ==
    \/ Len(t) = 2 /\ t[1] = "1" /\ t[2] \in {"0", "1", "2"}
    \/ Len(t) = 2 /\ t[1] = "0" /\ t[2] \in Digits \ {"0"}
    \/ Len(t) = 1 /\ t[1] \in Digits \ {"0"}

\* strptime's pattern for %d: 3[0-1]|[1-2]\d|0[1-9]|[1-9]
DayDirective(t) ==
    \/ Len(t) = 2 /\ t[1] = "3" /\ t[2] \in {"0", "1"}
    \/ Len(t) = 2 /\ t[1] \in {"1", "2"} /\ t[2] \in Digits
    \/ Len(t) = 2 /\ t[1] = "0" /\ t[2] \in Digits \ {"0"}
    \/ Len(t) = 1 /\ t[1] \in Digits \ {"0"}

\* datetime.strptime(date_str, "%Y-%m-%d"): the whole string must be consumed
StrptimeYMD(s) ==
    LET n == Len(s)
        fits(i, j) ==
            /\ n = 4 + 1 + i + 1 + j
            /\ IsDigits(SubSeq(s, 1, 4))
            /\ s[5] = "-"
            /\ MonthDirective(SubSeq(s, 6, 5 + i))
            /\ s[6 + i] = "-"
            /\ DayDirective(SubSeq(s, 7 + i, n))
        cands == {c \in (1..2) \X (1..2) : fits(c[1], c[2])}
    IN  IF cands = {} THEN NoMatch
        ELSE LET c == CHOOSE c \in cands : TRUE
             IN  [matched |-> TRUE,
                  d  |-> SubSeq(s, 7 + c[1], n),
                  mo |-> SubSeq(s, 6, 5 + c[1]),
                  y  |-> SubSeq(s, 1, 4)]

IsLeap(y) == (y % 4 = 0 /\ y % 100 # 0) \/ y % 400 = 0

DaysInMonth(y, m) ==
    IF m = 2 THEN (IF IsLeap(y) THEN 29 ELSE 28)
    ELSE IF m \in {4, 6, 9, 11} THEN 30 ELSE 31

\* the datetime(year, mon, day, ...) constructor accepts exactly these
DatetimeAccepts(y, m, d) ==
    /\ y \in 1..9999
    /\ m \in 1..12
    /\ d \in 1..DaysInMonth(y, m)

DayBoundaryMut(is_end) == <<0, 0, 0>>

\* lines 68-71: 23:59:59 for the end of the day, 00:00:00 for its start
DayBoundary(is_end) == IF is_end THEN <<23, 59, 59>> ELSE <<0, 0, 0>>

\* dt.isoformat(timespec="seconds") + "Z"
IsoFormat(y, m, d, hms) ==
    Pad4(y) \o <<"-">> \o Pad2(m) \o <<"-">> \o Pad2(d) \o <<"T">>
      \o Pad2(hms[1]) \o <<":">> \o Pad2(hms[2]) \o <<":">> \o Pad2(hms[3])
      \o <<"Z">>

ValueError == [err |-> "ValueError", iso |-> <<>>]
NotCalled  == [err |-> "not called", iso |-> <<>>]
Returned(s) == [err |-> "", iso |-> s]

to_iso_format(date_str, is_end, today_year) ==
    LET s   == Strip(date_str)
        m   == DayMonthRegex(s)
        dt0 == StrptimeYMD(s)
        p   == IF m.matched THEN m ELSE dt0
        day == ToInt(p.d)
        mon == ToInt(p.mo)
        year == IF p.y # <<>> THEN ToInt(p.y) ELSE today_year
    IN  IF ~m.matched /\ ~dt0.matched THEN ValueError
        ELSE IF ~DatetimeAccepts(year, mon, day) THEN ValueError
        ELSE Returned(IsoFormat(year, mon, day, DayBoundary(is_end)))

(***************************************************************************)
(* Values of the service's JSON and of the assembled table                 *)
(***************************************************************************)
\* JSON null / pandas NaN in a column of names, in a column of ids
None   == <<"<None>">>
NoneId == "<None>"

\* an entry whose "task" is null or absent: json_normalize makes no task.name
NoTask == <<"<NoTask>">>

Allgemein == <<"A", "l", "l", "g", "e", "m", "e", "i", "n">>

\* pandas NaT / NaN
NaT == [date |-> <<0, 0, 0>>, hour |-> 0]
NaN == [nan |-> TRUE, hours |-> 0]
Hours(h) == [nan |-> FALSE, hours |-> h]

RECURSIVE DaysBeforeYear(_)
DaysBeforeYear(y) ==
    IF y <= 2024 THEN 0
    ELSE DaysBeforeYear(y - 1) + (IF IsLeap(y - 1) THEN 366 ELSE 365)

RECURSIVE DaysBeforeMonth(_, _)
DaysBeforeMonth(y, m) ==
    IF m <= 1 THEN 0 ELSE DaysBeforeMonth(y, m - 1) + DaysInMonth(y, m - 1)

DayNumber(date) ==
    DaysBeforeYear(date[1]) + DaysBeforeMonth(date[1], date[2]) + date[3]

\* (end - start).dt.total_seconds() / 3600.0; NaT on either side gives NaN
ElapsedHours(start, end) ==
    IF start = NaT \/ end = NaT THEN NaN
    ELSE Hours(24 * (DayNumber(end.date) - DayNumber(start.date))
                 + end.hour - start.hour)

\* .dt.strftime('%d.%m.%Y'); NaT gives NaN
StrftimeDMY(t) ==
    IF t = NaT THEN None
    ELSE Pad2(t.date[3]) \o <<".">> \o Pad2(t.date[2]) \o <<".">> \o Pad4(t.date[1])

\* lines 180-185 and 190-195
COLUMNS ==
    <<"description", "user_name", "client_id", "client_name", "project_id",
      "project_name", "task_name", "start", "duration_hours">>

PAGE_SIZE == 1000

(***************************************************************************)
(* get_entries_by_date: the join of one user's entries (main.py 142-186)   *)
(***************************************************************************)
\* {p["id"]: p for p in projects}.get(pid, {}): the last project with the id
MapGet(table, id) ==
    LET at == {i \in DOMAIN table : table[i].id = id}
    IN  IF at = {} THEN [found |-> FALSE, at |-> 0]
        ELSE [found |-> TRUE, at |-> CHOOSE i \in at : \A j \in at : j <= i]

\* df.get('projectId', pd.NA).fillna('').astype(str)
ProjectIdOf(e) == IF e.projectId = NoneId THEN "" ELSE e.projectId

ProjectNameOfMut(e, project_table) ==
    IF e.project # None THEN e.project
    ELSE LET g == MapGet(project_table, ProjectIdOf(e))
         IN  IF g.found THEN project_table[g.at].name ELSE <<>>

\* project_map.get(pid, {}).get('name', '')
ProjectNameOf(e, project_table) ==
    LET g == MapGet(project_table, ProjectIdOf(e))
    IN  IF g.found THEN project_table[g.at].name ELSE <<>>

\* project_map.get(pid, {}).get('clientId', '')
ClientIdOf(e, project_table) ==
    LET g == MapGet(project_table, ProjectIdOf(e))
    IN  IF g.found THEN project_table[g.at].clientId ELSE ""

\* client_map.get(cid, '')
ClientNameOf(cid, client_table) ==
    LET g == MapGet(client_table, cid)
    IN  IF g.found THEN client_table[g.at].name ELSE <<>>

\* 'task.name' in df.columns: some entry of the frame has a task object
HasTaskNameColumn(entries) == \E i \in DOMAIN entries : entries[i].task # NoTask

\* lines 161-169: .fillna('Allgemein').replace('', 'Allgemein')
TaskNameOf(e, entries) ==
    IF HasTaskNameColumn(entries)
    THEN LET v == IF e.task = NoTask THEN None ELSE e.task
             filled == IF v = None THEN Allgemein ELSE v
         IN  IF filled = <<>> THEN Allgemein ELSE filled
    ELSE Allgemein

\* one row of df[cols] for one raw entry of the user's frame
AssembleRow(e, entries, user, project_table, client_table) ==
    [description    |-> IF e.description = None THEN <<>> ELSE e.description,
     user_name      |-> user.name,
     client_id      |-> ClientIdOf(e, project_table),
     client_name    |-> ClientNameOf(ClientIdOf(e, project_table), client_table),
     project_id     |-> ProjectIdOf(e),
     project_name   |-> ProjectNameOf(e, project_table),
     task_name      |-> TaskNameOf(e, entries),
     start          |-> StrftimeDMY(e.start),
     duration_hours |-> ElapsedHours(e.start, e.end)]

AssembleFrame(entries, user, project_table, client_table) ==
    [i \in DOMAIN entries |->
        AssembleRow(entries[i], entries, user, project_table, client_table)]

RECURSIVE SelectSeq2(_, _)
SelectSeq2(seq, keep) ==
    IF seq = <<>> THEN <<>>
    ELSE (IF Head(seq) \in keep THEN <<Head(seq)>> ELSE <<>>)
           \o SelectSeq2(Tail(seq), keep)

\* the positions of a sequence that satisfy a row test, in order
Positions(n, ok(_)) == SelectSeq2([i \in 1..n |-> i], {i \in 1..n : ok(i)})

DropUnresolvedMut(rows) ==
    LET ok(i) == rows[i].client_name # None /\ rows[i].project_name # None
        at == Positions(Len(rows), ok)
    IN  [k \in DOMAIN at |-> rows[at[k]]]

\* lines 199-204: dropna on both names, then both names non-blank
DropUnresolved(rows) ==
    LET ok(i) == /\ rows[i].client_name # None
                 /\ rows[i].project_name # None
                 /\ Strip(rows[i].client_name) # <<>>
                 /\ Strip(rows[i].project_name) # <<>>
        at == Positions(Len(rows), ok)
    IN  [k \in DOMAIN at |-> rows[at[k]]]

RECURSIVE Concat(_)
Concat(seqs) == IF seqs = <<>> THEN <<>> ELSE Head(seqs) \o Concat(Tail(seqs))

(***************************************************************************)
(* fetch_all and get_entries_by_date against the service                   *)
(***************************************************************************)
MaxEntries == 2
ServicePageSize == 2

\* the workspace's reference data
AllProjects ==
    << [id |-> "p1", name |-> <<"W", "b">>, clientId |-> "c1"],
       [id |-> "p2", name |-> <<"A", "p">>, clientId |-> ""],
       [id |-> "p3", name |-> <<"A", "u">>, clientId |-> "c9"],
       [id |-> "p4", name |-> None,         clientId |-> "c1"],
       [id |-> "p5", name |-> <<" ">>,      clientId |-> "c1"],
       [id |-> "p6", name |-> <<"O", "k">>, clientId |-> "c2"],
       [id |-> "p7", name |-> <<"O", "n">>, clientId |-> "c3"],
       [id |-> "p8", name |-> <<"w", "b">>, clientId |-> "c4"] >>

AllClients ==
    << [id |-> "c1", name |-> <<"A", "c">>],
       [id |-> "c2", name |-> <<" ", " ">>],
       [id |-> "c3", name |-> None],
       [id |-> "c4", name |-> <<"B", "c">>] >>

AllUsers ==
    << [id |-> "u1", name |-> <<"U", "1">>],
       [id |-> "u2", name |-> <<"U", "2">>] >>

\* the workspace has none, one or both of them
UserLists == {SubSeq(AllUsers, 1, k) : k \in 0..Len(AllUsers)}

T1 == [date |-> <<2025, 6, 30>>, hour |-> 22]
T2 == [date |-> <<2025, 7, 1>>, hour |-> 1]

\* the raw time entries the service may hold: every project case, the
\* resolvable, the unknown and the missing project id also with stale
\* embedded project fields, and every task and interval case
RawEntries ==
    [projectId : {NoneId, "p0", "p1", "p2", "p3", "p4", "p5", "p6", "p7", "p8"},
     project : {None}, task : {<<"D", "v">>},
     description : {<<"d">>}, start : {T1}, end : {T2}]
    \cup
    [projectId : {NoneId, "p0", "p1"},
     project : {<<"S", "t">>}, task : {<<"D", "v">>},
     description : {<<"d">>}, start : {T1}, end : {T2}]
    \cup
    [projectId : {"p1"}, project : {None},
     task : {NoTask, None, <<>>, <<" ">>},
     description : {<<"d">>}, start : {T1}, end : {T2}]
    \cup
    [projectId : {"p1"}, project : {None}, task : {<<"D", "v">>},
     description : {<<"d">>}, start : {T1}, end : {T1, NaT}]

RECURSIVE SeqsUpTo(_, _)
SeqsUpTo(S, n) ==
    IF n = 0 THEN {<<>>}
    ELSE LET shorter == SeqsUpTo(S, n - 1)
         IN  shorter \cup {Append(q, x) : q \in shorter, x \in S}

EntryLists(n) == SeqsUpTo(RawEntries, n)

\* the service's answer to ?page=n: its own page size, the request names none
ServicePage(list, n) ==
    SubSeq(list, (n - 1) * ServicePageSize + 1,
           IF n * ServicePageSize < Len(list) THEN n * ServicePageSize ELSE Len(list))

Unset == [set |-> FALSE, items |-> <<>>]
Fetched(items) == [set |-> TRUE, items |-> items]

NoTable == [returned |-> FALSE, columns |-> <<>>, rows |-> <<>>]
DataFrame(columns, rows) == [returned |-> TRUE, columns |-> columns, rows |-> rows]

Period == [start |-> "start_iso", end |-> "end_iso"]

\* line 82 with the endpoints of lines 119, 120, 125 and 134
Endpoint ==
    IF gPc = "entries"
    THEN [path |-> "time-entries", user |-> users.items[userIdx].id]
    ELSE [path |-> gPc, user |-> ""]

\* lines 87-88: query = params or {}; query.update({"page": page})
Query(page) ==
    IF gPc = "entries"
    THEN [start |-> Period.start, end |-> Period.end, page |-> page]
    ELSE [page |-> page]

Fetching == gPc \in {"projects", "clients", "users", "entries"}

Logged(ok, items) ==
    Append(reqLog, [endpoint |-> Endpoint, query |-> Query(faPage),
                    ok |-> ok, items |-> items])

RawCount == Len(Concat([i \in DOMAIN rawSeen |-> rawSeen[i].entries]))

\* get_entries_by_date touches nothing but its own state
FetchFrame == UNCHANGED <<cliVars, dateVars, selVars, repVars, wizVars>>

FetchInit ==
    /\ gPc = "projects"
    /\ faPage = 1
    /\ faItems = <<>>
    /\ served = AllProjects
    /\ reqLog = <<>>
    /\ projects = Unset
    /\ clients = Unset
    /\ users = Unset
    /\ userIdx = 0
    /\ all_frames = <<>>
    /\ rawSeen = <<>>
    /\ result = NoTable
    /\ reportVia = "none"
    /\ reportRows = <<>>

\* lines 89-97: the page has items; extend all_items, next page
PageArrives ==
    /\ FetchFrame
    /\ Fetching
    /\ ServicePage(served, faPage) # <<>>
    /\ reqLog' = Logged(TRUE, ServicePage(served, faPage))
    /\ faItems' = faItems \o ServicePage(served, faPage)
    /\ faPage' = faPage + 1
    /\ UNCHANGED <<gPc, served, projects, clients, users, userIdx, all_frames,
                   rawSeen, result>>
    /\ UNCHANGED <<reportVia, reportRows>>

OnRequestErrorMut(frames) ==
    [pc |-> "returned", result |-> DataFrame(COLUMNS, Concat(frames))]

\* lines 89-90: requests.get or raise_for_status raises; neither fetch_all
\* nor get_entries_by_date catches it
OnRequestError(frames) == [pc |-> "raised", result |-> NoTable]

RequestFails ==
    /\ FetchFrame
    /\ Fetching
    /\ reqLog' = Logged(FALSE, <<>>)
    /\ gPc' = OnRequestError(all_frames).pc
    /\ result' = OnRequestError(all_frames).result
    /\ UNCHANGED <<faPage, faItems, served, projects, clients, users, userIdx,
                   all_frames, rawSeen>>
    /\ UNCHANGED <<reportVia, reportRows>>

\* line 119 returns; line 120 starts
ProjectsFetched ==
    /\ FetchFrame
    /\ gPc = "projects"
    /\ ServicePage(served, faPage) = <<>>
    /\ reqLog' = Logged(TRUE, <<>>)
    /\ projects' = Fetched(faItems)
    /\ gPc' = "clients"
    /\ served' = AllClients
    /\ faPage' = 1
    /\ faItems' = <<>>
    /\ UNCHANGED <<clients, users, userIdx, all_frames, rawSeen, result>>
    /\ UNCHANGED <<reportVia, reportRows>>

\* line 120 returns; line 125 starts
ClientsFetched ==
    /\ FetchFrame
    /\ gPc = "clients"
    /\ ServicePage(served, faPage) = <<>>
    /\ reqLog' = Logged(TRUE, <<>>)
    /\ clients' = Fetched(faItems)
    /\ gPc' = "users"
    /\ served' \in UserLists
    /\ faPage' = 1
    /\ faItems' = <<>>
    /\ UNCHANGED <<projects, users, userIdx, all_frames, rawSeen, result>>
    /\ UNCHANGED <<reportVia, reportRows>>

\* lines 125-128: no users, an empty DataFrame is returned
NoUsers ==
    /\ FetchFrame
    /\ gPc = "users"
    /\ ServicePage(served, faPage) = <<>>
    /\ faItems = <<>>
    /\ reqLog' = Logged(TRUE, <<>>)
    /\ users' = Fetched(faItems)
    /\ gPc' = "returned"
    /\ result' = DataFrame(<<>>, <<>>)
    /\ UNCHANGED <<faPage, faItems, served, projects, clients, userIdx,
                   all_frames, rawSeen>>
    /\ UNCHANGED <<reportVia, reportRows>>

\* lines 125-133: the loop over the users starts
UsersFetched ==
    /\ FetchFrame
    /\ gPc = "users"
    /\ ServicePage(served, faPage) = <<>>
    /\ faItems # <<>>
    /\ reqLog' = Logged(TRUE, <<>>)
    /\ users' = Fetched(faItems)
    /\ gPc' = "entries"
    /\ userIdx' = 1
    /\ served' \in EntryLists(MaxEntries)
    /\ faPage' = 1
    /\ faItems' = <<>>
    /\ UNCHANGED <<projects, clients, all_frames, rawSeen, result>>
    /\ UNCHANGED <<reportVia, reportRows>>

\* lines 139-186 for the entries fetch_all returned: all_frames afterwards
FramesWith(entries) ==
    IF entries = <<>> THEN all_frames
    ELSE Append(all_frames,
                AssembleFrame(entries, users.items[userIdx],
                              projects.items, clients.items))

\* lines 133-186, then the next user's fetch starts
NextUser ==
    /\ FetchFrame
    /\ gPc = "entries"
    /\ ServicePage(served, faPage) = <<>>
    /\ userIdx < Len(users.items)
    /\ reqLog' = Logged(TRUE, <<>>)
    /\ all_frames' = FramesWith(faItems)
    /\ rawSeen' = Append(rawSeen, [user |-> users.items[userIdx].id,
                                    entries |-> faItems])
    /\ userIdx' = userIdx + 1
    /\ served' \in EntryLists(MaxEntries - RawCount - Len(faItems))
    /\ faPage' = 1
    /\ faItems' = <<>>
    /\ UNCHANGED <<gPc, projects, clients, users, result>>
    /\ UNCHANGED <<reportVia, reportRows>>

\* lines 133-205 for the last user: concatenate, drop, return
LastUser ==
    /\ FetchFrame
    /\ gPc = "entries"
    /\ ServicePage(served, faPage) = <<>>
    /\ userIdx = Len(users.items)
    /\ reqLog' = Logged(TRUE, <<>>)
    /\ all_frames' = FramesWith(faItems)
    /\ rawSeen' = Append(rawSeen, [user |-> users.items[userIdx].id,
                                    entries |-> faItems])
    /\ gPc' = "returned"
    /\ result' = IF FramesWith(faItems) = <<>>
                  THEN DataFrame(COLUMNS, <<>>)
                  ELSE DataFrame(COLUMNS, DropUnresolved(Concat(FramesWith(faItems))))
    /\ UNCHANGED <<faPage, faItems, served, projects, clients, users, userIdx>>
    /\ UNCHANGED <<reportVia, reportRows>>

\* str.lower() on ASCII: "A".."Z" (65..90) move up by 32
LowerChar(c) ==
    IF c \in {Ascii[i] : i \in 34..59} THEN Ascii[CharOrd(c) + 32 - 31] ELSE c

Lower(name) == [i \in DOMAIN name |-> LowerChar(name[i])]

\* the rows of a table that pass a test, in table order
RowsWhere(rows, ok(_)) ==
    LET keep(i) == ok(rows[i])
        at == Positions(Len(rows), keep)
    IN  [k \in DOMAIN at |-> rows[at[k]]]

\* main.py 975-982: fillna('Allgemein'), strip, replace ^$ by 'Allgemein'
CliClean(v) ==
    LET filled == IF v = None THEN Allgemein ELSE v
    IN  IF Strip(filled) = <<>> THEN Allgemein ELSE Strip(filled)

\* main.py 984-987: data_rows of the command-line report
CliDataRows(rows) ==
    [i \in DOMAIN rows |->
        [description |-> CliClean(rows[i].description),
         task_name   |-> CliClean(rows[i].task_name),
         start       |-> rows[i].start,
         duration    |-> rows[i].duration_hours]]

\* streamlit_app.py 430-433: data_rows of the web report
WebDataRows(rows) ==
    [i \in DOMAIN rows |->
        [description |-> rows[i].description,
         task_name   |-> rows[i].task_name,
         start       |-> rows[i].start,
         duration    |-> rows[i].duration_hours]]

\* process_reports_loop for one client picked by name and id, Enter at the
\* project prompt: main.py 333-336, 941-948, 975-987
CliReport ==
    /\ FetchFrame
    /\ gPc = "returned"
    /\ reportVia = "none"
    /\ result.rows # <<>>
    /\ \E k \in DOMAIN result.rows :
          LET chosen_name == Lower(Strip(result.rows[k].client_name))
              client_id == result.rows[k].client_id
              picked(r) == /\ Lower(Strip(r.client_name)) = chosen_name
                           /\ r.client_id = client_id
          IN  reportRows' = CliDataRows(RowsWhere(result.rows, picked))
    /\ reportVia' = "cli"
    /\ UNCHANGED <<gPc, faPage, faItems, served, reqLog, projects, clients,
                   users, userIdx, all_frames, rawSeen, result>>

\* the web wizard for one client of the select box with all its projects
\* selected and the table confirmed unedited: streamlit_app.py 229-234,
\* 301-304, 430-433
WebReport ==
    /\ FetchFrame
    /\ gPc = "returned"
    /\ reportVia = "none"
    /\ result.rows # <<>>
    /\ \E k \in DOMAIN result.rows :
          LET client == result.rows[k].client_name
              ofClient(r) == Lower(Strip(r.client_name)) = Lower(Strip(client))
              client_rows == RowsWhere(result.rows, ofClient)
              all_projects ==
                  {client_rows[i].project_name : i \in DOMAIN client_rows}
              picked(r) == /\ r.client_name = client
                           /\ r.project_name \in all_projects
          IN  reportRows' = WebDataRows(RowsWhere(result.rows, picked))
    /\ reportVia' = "web"
    /\ UNCHANGED <<gPc, faPage, faItems, served, reqLog, projects, clients,
                   users, userIdx, all_frames, rawSeen, result>>

FetchNext ==
    \/ PageArrives
    \/ RequestFails
    \/ ProjectsFetched
    \/ ClientsFetched
    \/ NoUsers
    \/ UsersFetched
    \/ NextUser
    \/ LastUser
    \/ CliReport
    \/ WebReport

(***************************************************************************)
(* The wizard's session: secrets, credentials and the date input           *)
(* (streamlit_app.py 23-80 and 146-168, config.py, rotate_secrets.py)      *)
(***************************************************************************)
\* rotate_secrets.py 17-21: SHA-256 as hex digits, one digest per password
hash_password(raw_password) ==
    CASE raw_password = "pw-a" -> "3f1c"
      [] raw_password = "pw-b" -> "9a20"
      [] raw_password = "pw-n" -> "c7e4"
      [] raw_password = "pw-m" -> "04bd"

\* .streamlit/secrets.toml as deployed: anna may log in and has API access,
\* ben may log in and has none, admin is the API entry config.py falls
\* back to
InitialSecrets ==
    [auth  |-> [u \in {"anna", "ben"} |->
                  [password |-> IF u = "anna" THEN "pw-a" ELSE "pw-b"]],
     users |-> [u \in {"anna", "admin"} |->
                  [api_key      |-> IF u = "anna" THEN "key-anna" ELSE "key-admin",
                   workspace_id |-> IF u = "anna" THEN "ws-anna" ELSE "ws-admin"]]]

NoUsername == "<no username>"

NoSession == [username |-> NoUsername, api_key |-> "", workspace_id |-> ""]

\* streamlit_app.py 34-51: "Anmelden" pressed with a user name and a
\* password; a table entry without the key "password" raises KeyError
login(st_secrets, username, password) ==
    LET auth_users == st_secrets.auth
        user_table == st_secrets.users
    IN  IF username \notin DOMAIN auth_users
        THEN [authenticated |-> FALSE, error |-> "Ungültige Anmeldedaten",
              session |-> NoSession]
        ELSE IF "password" \notin DOMAIN auth_users[username]
        THEN [authenticated |-> FALSE, error |-> "KeyError",
              session |-> NoSession]
        ELSE IF auth_users[username].password # password
        THEN [authenticated |-> FALSE, error |-> "Ungültige Anmeldedaten",
              session |-> NoSession]
        ELSE IF username \notin DOMAIN user_table
        THEN [authenticated |-> FALSE, error |-> "kein API-Zugriff",
              session |-> NoSession]
        ELSE [authenticated |-> TRUE, error |-> "",
              session |-> [username     |-> username,
                           api_key      |-> user_table[username].api_key,
                           workspace_id |-> user_table[username].workspace_id]]

\* config.py 10-19: what the module binds when its code runs under
\* Streamlit, for the user name the session holds at that moment
config_module(st_secrets, session_username) ==
    LET user == IF session_username = NoUsername THEN "admin"
                ELSE session_username
    IN  IF user \in DOMAIN st_secrets.users
        THEN [API_KEY      |-> st_secrets.users[user].api_key,
              WORKSPACE_ID |-> st_secrets.users[user].workspace_id]
        ELSE [API_KEY |-> "", WORKSPACE_ID |-> ""]

\* rotate_secrets.py 23-50 with the password generated at line 38 given:
\* the tables written back, or ValueError for a user without [users] entry
update_secrets_for_user(data, username, raw) ==
    LET pw_hash == hash_password(raw)
        entry == data.users[username]
    IN  IF username \notin DOMAIN data.users
        THEN [raised |-> TRUE, data |-> data]
        ELSE [raised |-> FALSE,
              data |->
                [users |-> [data.users EXCEPT ![username] =
                              [k \in DOMAIN entry \cup {"password_hash"} |->
                                  IF k = "password_hash" THEN pw_hash
                                  ELSE entry[k]]],
                 auth  |-> [u \in DOMAIN data.auth \cup {username} |->
                              IF u = username
                              THEN [password_hash |-> pw_hash]
                              ELSE data.auth[u]]]]

\* streamlit_app.py 150-158: the value of the date input until the operator
\* picks dates, the first and the last day of the month (June 2024)
DefaultRange == << <<2024, 6, 1>>, <<2024, 6, 30>> >>

\* what the date input can hand over: the default, another range, a range
\* with the end before the start, a start without an end
DateRanges ==
    { DefaultRange,
      << <<2024, 7, 1>>, <<2024, 7, 15>> >>,
      << <<2024, 6, 30>>, <<2024, 6, 1>> >>,
      << <<2024, 7, 1>> >> }

\* streamlit_app.py 160-168: the run goes on only with a start and an end,
\* the start not after the end
DatesPass(range) ==
    Len(range) = 2 /\ ~(DayNumber(range[1]) > DayNumber(range[2]))

\* start_date.strftime("%d-%m-%Y")
StrftimeDashed(d) ==
    Pad2(d[3]) \o <<"-">> \o Pad2(d[2]) \o <<"-">> \o Pad4(d[1])

NoRequest == [start_iso |-> <<>>, end_iso |-> <<>>, api_key |-> "",
              workspace_id |-> ""]

\* streamlit_app.py 184-193: the request for the entries of the dates shown
EntriesRequest(range, today_year, module) ==
    [start_iso    |-> to_iso_format(StrftimeDashed(range[1]), FALSE,
                                    today_year).iso,
     end_iso      |-> to_iso_format(StrftimeDashed(range[2]), TRUE,
                                    today_year).iso,
     api_key      |-> module.API_KEY,
     workspace_id |-> module.WORKSPACE_ID]

\* no call of update_secrets_for_user yet; later its argument, the password
\* it returned and the tables it read
NotRotated == [username |-> NoUsername, raw |-> "", before |-> InitialSecrets]

(***************************************************************************)
(* Client and project selection: main.py 236-420 and 924-1012,             *)
(* streamlit_app.py 209-308                                                *)
(***************************************************************************)
\* str.isdigit()
isdigit(s) == s # <<>> /\ IsDigits(s)

\* sorted(...) of a set of distinct str values
RECURSIVE sorted(_)
sorted(S) ==
    IF S = {} THEN <<>>
    ELSE LET m == CHOOSE x \in S : \A y \in S \ {x} : StrLess(x, y)
         IN  <<m>> \o sorted(S \ {m})

Range(seq) == {seq[i] : i \in DOMAIN seq}

\* main.py 236-241
filter_by_client(df, client_name) ==
    LET key == Lower(client_name)
        ok(r) == Lower(r.client_name) = key
    IN  RowsWhere(df, ok)

\* main.py 346-351
filter_by_project(df, project_name) ==
    LET key == Lower(project_name)
        ok(r) == Lower(r.project_name) = key
    IN  RowsWhere(df, ok)

\* main.py 251-258: client_name filled, stripped; rows without one dropped
CleanClients(df) ==
    LET stripped == [i \in DOMAIN df |->
                        [df[i] EXCEPT !.client_name =
                            IF @ = None THEN <<>> ELSE Strip(@)]]
        ok(r) == r.client_name # <<>>
    IN  RowsWhere(stripped, ok)

\* .drop_duplicates(): the first occurrence of each value stays
DropDuplicates(seq) ==
    LET first(i) == \A j \in 1..(i - 1) : seq[j] # seq[i]
        at == Positions(Len(seq), first)
    IN  [k \in DOMAIN at |-> seq[at[k]]]

\* .sort_values('client_name') on a handful of records: equal names keep
\* their order
RECURSIVE SortByName(_)
SortByName(recs) ==
    IF recs = <<>> THEN <<>>
    ELSE LET i == CHOOSE k \in DOMAIN recs :
                    /\ \A j \in DOMAIN recs :
                          ~StrLess(recs[j].client_name, recs[k].client_name)
                    /\ \A j \in 1..(k - 1) :
                          recs[j].client_name # recs[k].client_name
         IN  <<recs[i]>> \o SortByName(SubSeq(recs, 1, i - 1)
                                         \o SubSeq(recs, i + 1, Len(recs)))

\* main.py 261-265
ClientRecords(df) ==
    SortByName(DropDuplicates([i \in DOMAIN df |->
        [client_id |-> df[i].client_id, client_name |-> df[i].client_name]]))

\* main.py 272-274: lower-cased name -> the ids of the records with it
NameMap(records) ==
    [key \in {Lower(records[i].client_name) : i \in DOMAIN records} |->
        LET has(i) == Lower(records[i].client_name) = key
            at == Positions(Len(records), has)
        IN  [k \in DOMAIN at |-> records[at[k]].client_id]]

\* main.py 333-336
RowsOfClient(df, name, client_id) ==
    LET ok(r) == Lower(r.client_name) = name /\ r.client_id = client_id
    IN  RowsWhere(df, ok)

\* sorted(df['project_name'].dropna().unique())
ProjectsOf(df) == sorted({df[i].project_name : i \in DOMAIN df} \ {None})

\* sorted(df_date['client_name'].dropna().unique())
ClientsOf(df) == sorted({df[i].client_name : i \in DOMAIN df} \ {None})

\* re.split(r'[,\.]+', s): cur is the piece being read, afterSep tells that
\* the character before was a separator
RECURSIVE ReSplitFrom(_, _, _)
ReSplitFrom(s, cur, afterSep) ==
    IF s = <<>> THEN <<cur>>
    ELSE IF Head(s) \in {",", "."}
         THEN IF afterSep THEN ReSplitFrom(Tail(s), cur, TRUE)
              ELSE <<cur>> \o ReSplitFrom(Tail(s), <<>>, TRUE)
    ELSE ReSplitFrom(Tail(s), Append(cur, Head(s)), FALSE)

\* main.py 390-391
Tokens(choice) ==
    LET pieces == ReSplitFrom(choice, <<>>, FALSE)
        ok(i) == Strip(pieces[i]) # <<>>
        at == Positions(Len(pieces), ok)
    IN  [k \in DOMAIN at |-> Strip(pieces[at[k]])]

Reprompt == [kind |-> "continue", list |-> <<>>]
SysExit  == [kind |-> "exit", list |-> <<>>]
Return(list) == [kind |-> "return", list |-> list]

\* main.py 377-420: one pass of the prompt loop on one line of input
filter_by_project_inter(projects_list, typed) ==
    LET choice == Strip(typed)
        tokens == Tokens(choice)
        inList(i) == projects_list[i] \in Range(tokens)
        at == Positions(Len(projects_list), inList)
        matched == [k \in DOMAIN at |-> projects_list[at[k]]]
    IN  IF Lower(choice) = <<"x">> THEN SysExit
        ELSE IF choice = <<>> THEN Return(projects_list)
        ELSE IF tokens = <<>> THEN Reprompt
        ELSE IF \A i \in DOMAIN tokens : isdigit(tokens[i])
             THEN IF \A i \in DOMAIN tokens :
                        ToInt(tokens[i]) \in 1..Len(projects_list)
                  THEN Return([i \in DOMAIN tokens |->
                                  projects_list[ToInt(tokens[i])]])
                  ELSE Reprompt
        ELSE IF matched = <<>> THEN Reprompt
        ELSE Return(matched)

\* df[df['project_name'].isin(selected)]
RowsOfProjects(df, selected) ==
    LET ok(r) == r.project_name \in Range(selected)
    IN  RowsWhere(df, ok)

\* no line read yet at a prompt
NoInput == <<"<no input>">>

\* a row of a loaded table: names resolved and non-blank (main.py 199-204)
LoadedRow(client_id, client_name, project_id, project_name) ==
    [description    |-> <<"d">>,
     user_name      |-> <<"U", "1">>,
     client_id      |-> client_id,
     client_name    |-> client_name,
     project_id     |-> project_id,
     project_name   |-> project_name,
     task_name      |-> Allgemein,
     start          |-> StrftimeDMY(T1),
     duration_hours |-> ElapsedHours(T1, T2)]

\* the rows the service can hold for a period: two clients whose names
\* differ in letter case only, two clients with one name, projects whose
\* names differ in letter case only
LoadedRows ==
    << LoadedRow("c1", <<"A", "c">>, "p1", <<"W", "b">>),
       LoadedRow("c1", <<"A", "c">>, "p2", <<"A", "p">>),
       LoadedRow("c2", <<"A", "C">>, "p3", <<"w", "b">>),
       LoadedRow("c4", <<"B", "c">>, "p4", <<"W", "b">>),
       LoadedRow("c5", <<"B", "c">>, "p5", <<"A", "p">>) >>

\* the non-empty tables get_entries_by_date can hand over
LoadedTables ==
    {LET at == SelectSeq2([i \in DOMAIN LoadedRows |-> i], K)
     IN  [k \in DOMAIN at |-> LoadedRows[at[k]]] :
        K \in (SUBSET DOMAIN LoadedRows) \ {{}}}

\* what an operator types at the client prompt, with and without blanks
ClientWords ==
    { <<"A", "c">>, <<"a", "c">>, <<"A", "C">>, <<"B", "c">>, <<"z", "z">>,
      <<"1">>, <<"2">>, <<"9">>, <<"x">>, <<"X">>, <<>> }

ClientInputs == ClientWords \cup { <<" ", "a", "c", " ">>, <<" ", "1", " ">> }

\* what an operator types at the prompt for one of several ids
IdInputs == { <<"1">>, <<"2">>, <<"3">>, <<"c", "4">>, <<"x">> }

\* what an operator types at the project prompt: nothing, x, one item, or
\* two items with a comma, a dot or a blank between them
ProjectWords ==
    { <<"W", "b">>, <<"w", "b">>, <<"A", "p">>, <<"z", "z">>,
      <<"1">>, <<"2">>, <<"9">> }

ProjectPairs ==
    { << <<"W", "b">>, <<"A", "p">> >>, << <<"A", "p">>, <<"W", "b">> >>,
      << <<"w", "b">>, <<"A", "p">> >>, << <<"W", "b">>, <<"z", "z">> >>,
      << <<"1">>, <<"2">> >>, << <<"2">>, <<"9">> >>,
      << <<"1">>, <<"A", "p">> >> }

ProjectSeps == { <<",">>, <<".">>, <<" ">>, <<",", " ">> }

ProjectInputs ==
    { <<>>, <<"x">>, <<",">> } \cup ProjectWords
      \cup {pair[1] \o sep \o pair[2] : pair \in ProjectPairs,
                                        sep \in ProjectSeps}

\* the arguments get_data is called with
NameArgs ==
    { <<"A", "c">>, <<"a", "c">>, <<"B", "c">>, <<"W", "b">>, <<"w", "b">>,
      <<"A", "P">>, <<"z", "z">> }

NoSelection ==
    /\ selVia = "none"
    /\ selPc = "loaded"
    /\ choice_client = NoInput
    /\ choice_project = NoInput
    /\ selected_name = <<>>
    /\ client_ids = <<>>
    /\ df_client = <<>>
    /\ projects_in_client = <<>>
    /\ selected_projects = <<>>
    /\ df_proj = NoTable

SelectInit == df_date \in LoadedTables /\ NoSelection

SelectIdle == df_date = <<>> /\ NoSelection

\* selecting rows touches neither the dates nor the fetch
SelectFrame ==
    UNCHANGED <<cliVars, dateVars, fetchVars, wizVars, editable_table, manual_row,
                pdf_bytes, pdf_filename>>

\* main.py 432-433: get_data's two filters on the loaded table
GetDataFilters ==
    /\ SelectFrame
    /\ UNCHANGED selected_all_projects
    /\ selVia = "none"
    /\ \E client \in NameArgs, project \in NameArgs :
          /\ choice_client' = client
          /\ choice_project' = project
          /\ df_client' = filter_by_client(df_date, client)
          /\ df_proj' = DataFrame(COLUMNS,
                 filter_by_project(filter_by_client(df_date, client), project))
    /\ selVia' = "get_data"
    /\ selPc' = "filtered"
    /\ UNCHANGED <<df_date, selected_name, client_ids, projects_in_client,
                   selected_projects>>

\* main.py 930-938 and 251-269: the loop enters filter_by_client_inter
\* (a loaded table has a client name in every row)
EnterClientPrompt ==
    /\ SelectFrame
    /\ UNCHANGED selected_all_projects
    /\ selVia = "none"
    /\ selVia' = "cli"
    /\ selPc' = IF ClientRecords(CleanClients(df_date)) = <<>>
                 THEN "exit" ELSE "client_prompt"
    /\ UNCHANGED <<df_date, choice_client, choice_project, selected_name,
                   client_ids, df_client, projects_in_client,
                   selected_projects, df_proj>>

\* main.py 338-343 and 933-944: the client's rows are known; on to the
\* project prompt
AfterClient(rows) ==
    IF rows = <<>> THEN "client_prompt"
    ELSE IF ProjectsOf(rows) = <<>> THEN "exit"
    ELSE "project_prompt"

\* main.py 289-343: one line read at the client prompt
ClientPrompt ==
    /\ SelectFrame
    /\ UNCHANGED selected_all_projects
    /\ selVia = "cli"
    /\ selPc = "client_prompt"
    /\ \E typed \in ClientInputs :
          LET df == CleanClients(df_date)
              name_map == NameMap(ClientRecords(df))
              available_names == sorted(DOMAIN name_map)
              choice == Strip(typed)
              valid == IF isdigit(choice)
                       THEN ToInt(choice) \in 1..Len(available_names)
                       ELSE Lower(choice) \in DOMAIN name_map
              name == IF isdigit(choice) THEN available_names[ToInt(choice)]
                      ELSE Lower(choice)
              ids == name_map[name]
              rows == RowsOfClient(df, name, ids[1])
          IN  /\ choice_client' = typed
              /\ IF Lower(choice) = <<"x">>
                 THEN /\ selPc' = "exit"
                      /\ UNCHANGED <<selected_name, client_ids, df_client,
                                     projects_in_client>>
                 ELSE IF ~valid
                 THEN UNCHANGED <<selPc, selected_name, client_ids, df_client,
                                  projects_in_client>>
                 ELSE /\ selected_name' = name
                      /\ client_ids' = ids
                      /\ IF Len(ids) = 1
                         THEN /\ df_client' = rows
                              /\ selPc' = AfterClient(rows)
                              /\ projects_in_client' = ProjectsOf(rows)
                         ELSE /\ selPc' = "id_prompt"
                              /\ UNCHANGED <<df_client, projects_in_client>>
    /\ UNCHANGED <<df_date, selVia, choice_project, selected_projects, df_proj>>

\* main.py 320-343: one line read at the prompt for one of several ids; the
\* ids are str, so the int read never is one of them (line 327)
IdPrompt ==
    /\ SelectFrame
    /\ UNCHANGED selected_all_projects
    /\ selVia = "cli"
    /\ selPc = "id_prompt"
    /\ \E typed \in IdInputs :
          LET sub_choice == Strip(typed)
              rows == RowsOfClient(CleanClients(df_date), selected_name,
                                   client_ids[ToInt(sub_choice)])
          IN  IF isdigit(sub_choice) /\ ToInt(sub_choice) \in 1..Len(client_ids)
              THEN /\ df_client' = rows
                   /\ selPc' = AfterClient(rows)
                   /\ projects_in_client' = ProjectsOf(rows)
              ELSE UNCHANGED <<selPc, df_client, projects_in_client>>
    /\ UNCHANGED <<df_date, selVia, choice_client, choice_project,
                   selected_name, client_ids, selected_projects, df_proj>>

\* main.py 378-420 and 947-951: one line read at the project prompt, and
\* the rows of the projects it selected
ProjectPrompt ==
    /\ SelectFrame
    /\ UNCHANGED selected_all_projects
    /\ selVia = "cli"
    /\ selPc = "project_prompt"
    /\ \E typed \in ProjectInputs :
          LET got == filter_by_project_inter(projects_in_client, typed)
              rows == RowsOfProjects(df_client, got.list)
          IN  /\ choice_project' = typed
              /\ IF got.kind = "exit"
                 THEN /\ selPc' = "exit"
                      /\ UNCHANGED <<choice_client, selected_projects, df_proj>>
                 ELSE IF got.kind = "continue"
                 THEN UNCHANGED <<selPc, choice_client, selected_projects, df_proj>>
                 ELSE /\ selected_projects' = got.list
                      /\ IF rows = <<>>
                         THEN /\ selPc' = "client_prompt"
                              /\ choice_client' = NoInput
                              /\ UNCHANGED df_proj
                         ELSE /\ selPc' = "report"
                              /\ df_proj' = DataFrame(COLUMNS, rows)
                              /\ UNCHANGED choice_client
    /\ UNCHANGED <<df_date, selVia, selected_name, client_ids, df_client,
                   projects_in_client>>

\* main.py 1009-1012: another report, or the end of the loop
Again ==
    /\ SelectFrame
    /\ UNCHANGED selected_all_projects
    /\ selVia = "cli"
    /\ selPc = "report"
    /\ \E again \in {"y", "yes", "n", ""} :
          IF again \in {"y", "yes"}
          THEN /\ selPc' = "client_prompt"
               /\ choice_client' = NoInput
               /\ choice_project' = NoInput
               /\ selected_name' = <<>>
               /\ client_ids' = <<>>
               /\ df_client' = <<>>
               /\ projects_in_client' = <<>>
               /\ selected_projects' = <<>>
               /\ df_proj' = NoTable
          ELSE /\ selPc' = "exit"
               /\ UNCHANGED <<choice_client, choice_project, selected_name,
                              client_ids, df_client, projects_in_client,
                              selected_projects, df_proj>>
    /\ UNCHANGED <<df_date, selVia>>

\* streamlit_app.py 209-225: the wizard shows the select box of clients
ShowClients ==
    /\ SelectFrame
    /\ UNCHANGED selected_all_projects
    /\ selVia = "none"
    /\ selVia' = "web"
    /\ selPc' = "select_client"
    /\ UNCHANGED <<df_date, choice_client, choice_project, selected_name,
                   client_ids, df_client, projects_in_client,
                   selected_projects, df_proj>>

\* streamlit_app.py 219-255: the first client picked in the select box
ChooseClient ==
    /\ SelectFrame
    /\ DatesPass(date_range)
    /\ selVia = "web"
    /\ selPc = "select_client"
    /\ \E client \in Range(ClientsOf(df_date)) :
          LET ofClient(r) == Lower(Strip(r.client_name)) = Lower(Strip(client))
              rows == RowsWhere(df_date, ofClient)
          IN  /\ choice_client' = client
              /\ df_client' = rows
              /\ projects_in_client' = ProjectsOf(rows)
              /\ selected_projects' = IF Len(ProjectsOf(rows)) = 1
                                      THEN ProjectsOf(rows) ELSE <<>>
              /\ selected_all_projects' = (Len(ProjectsOf(rows)) = 1)
    /\ selPc' = "select_projects"
    /\ UNCHANGED <<df_date, selVia, choice_project, selected_name, client_ids,
                   df_proj>>

\* streamlit_app.py 269-282: the multiselect of the client's projects
ChooseProjects ==
    /\ SelectFrame
    /\ DatesPass(date_range)
    /\ selVia = "web"
    /\ selPc = "select_projects"
    /\ Len(projects_in_client) > 1
    /\ \E K \in SUBSET DOMAIN projects_in_client :
          LET at == SelectSeq2([i \in DOMAIN projects_in_client |-> i], K)
          IN  /\ selected_projects' = [k \in DOMAIN at |-> projects_in_client[at[k]]]
              /\ selected_all_projects' =
                    ([k \in DOMAIN at |-> projects_in_client[at[k]]]
                       = projects_in_client)
    /\ UNCHANGED <<df_date, selVia, selPc, choice_client, choice_project,
                   selected_name, client_ids, df_client, projects_in_client,
                   df_proj>>

\* streamlit_app.py 262-266 and 274-277: the button "Alle Projekte auswählen"
SelectAllProjects ==
    /\ SelectFrame
    /\ DatesPass(date_range)
    /\ selVia = "web"
    /\ selPc = "select_projects"
    /\ Len(projects_in_client) > 1
    /\ selected_projects' = projects_in_client
    /\ selected_all_projects' = TRUE
    /\ UNCHANGED <<df_date, selVia, selPc, choice_client, choice_project,
                   selected_name, client_ids, df_client, projects_in_client,
                   df_proj>>

\* streamlit_app.py 284-308: "Auswahl bestätigen", then df_selected (its
\* sort by start leaves rows of one day in table order)
ConfirmSelection ==
    /\ SelectFrame
    /\ DatesPass(date_range)
    /\ UNCHANGED selected_all_projects
    /\ selVia = "web"
    /\ selPc = "select_projects"
    /\ selected_projects # <<>>
    /\ selPc' = "confirmed"
    /\ LET ok(r) == /\ r.client_name = choice_client
                    /\ r.project_name \in Range(selected_projects)
       IN  df_proj' = DataFrame(COLUMNS, RowsWhere(df_date, ok))
    /\ UNCHANGED <<df_date, selVia, choice_client, choice_project,
                   selected_name, client_ids, df_client, projects_in_client,
                   selected_projects>>

\* main.py 208-217, over the clients that have rows in the table
build_client_name_map(df) ==
    NameMap(DropDuplicates([i \in DOMAIN df |->
        [client_id |-> df[i].client_id, client_name |-> df[i].client_name]]))

KeyError == [kind |-> "KeyError", id |-> ""]
AmbiguityError == [kind |-> "ValueError", id |-> ""]
ClientId(id) == [kind |-> "return", id |-> id]

\* main.py 220-233
select_client_id(name_map, choice) ==
    IF choice \notin DOMAIN name_map THEN KeyError
    ELSE IF Len(name_map[choice]) > 1 THEN AmbiguityError
    ELSE ClientId(name_map[choice][1])

\* a call of select_client_id on the table's clients
SelectClientId ==
    /\ SelectFrame
    /\ UNCHANGED selected_all_projects
    /\ selVia = "none"
    /\ \E choice \in NameArgs :
          LET name_map == build_client_name_map(df_date)
              got == select_client_id(name_map, choice)
          IN  /\ choice_client' = choice
              /\ selPc' = got.kind
              /\ client_ids' = IF got.kind = "return" THEN <<got.id>> ELSE <<>>
    /\ selVia' = "select_client_id"
    /\ UNCHANGED <<df_date, choice_project, selected_name, df_client,
                   projects_in_client, selected_projects, df_proj>>

SelectNext ==
    \/ GetDataFilters
    \/ SelectClientId
    \/ EnterClientPrompt
    \/ ClientPrompt
    \/ IdPrompt
    \/ ProjectPrompt
    \/ Again
    \/ ShowClients
    \/ ChooseClient
    \/ ChooseProjects
    \/ SelectAllProjects
    \/ ConfirmSelection

(***************************************************************************)
(* The report: period label, file name, totals (main.py 740-921 and        *)
(* 953-1005, streamlit_app.py 310-498)                                     *)
(***************************************************************************)
\* pd.to_datetime(..., format="%d.%m.%Y", errors="coerce") of one cell:
\* day.month.year in digits, a date of the calendar; anything else is NaT
ParseDMY(s) ==
    LET dots == {i \in DOMAIN s : s[i] = "."}
        d1 == CHOOSE i \in dots : \A j \in dots : i <= j
        d2 == CHOOSE i \in dots : \A j \in dots : j <= i
        dd == SubSeq(s, 1, d1 - 1)
        mm == SubSeq(s, d1 + 1, d2 - 1)
        yy == SubSeq(s, d2 + 1, Len(s))
    IN  IF /\ Cardinality(dots) = 2
           /\ isdigit(dd) /\ Len(dd) <= 2
           /\ isdigit(mm) /\ Len(mm) <= 2
           /\ isdigit(yy) /\ Len(yy) = 4
           /\ DatetimeAccepts(ToInt(yy), ToInt(mm), ToInt(dd))
        THEN [date |-> <<ToInt(yy), ToInt(mm), ToInt(dd)>>, hour |-> 0]
        ELSE NaT

\* sorted(...) of a set of numbers
RECURSIVE SortedInts(_)
SortedInts(S) ==
    IF S = {} THEN <<>>
    ELSE LET m == CHOOSE x \in S : \A y \in S : x <= y
         IN  <<m>> \o SortedInts(S \ {m})

\* .dt.to_period("M").unique(), sorted: the months of the rows that have a
\* date, each as year * 12 + (month - 1), ascending
PeriodsOf(rows) ==
    SortedInts({ParseDMY(rows[i].start).date[1] * 12
                  + ParseDMY(rows[i].start).date[2] - 1 :
                i \in {k \in DOMAIN rows : ParseDMY(rows[k].start) # NaT}})

PeriodYear(p) == p \div 12
PeriodMonth(p) == (p % 12) + 1

\* format_date(datetime(year, m, 1), "LLLL", locale='de')
MonthNames ==
    << <<"J", "a", "n", "u", "a", "r">>,
       <<"F", "e", "b", "r", "u", "a", "r">>,
       <<"M", "ä", "r", "z">>,
       <<"A", "p", "r", "i", "l">>,
       <<"M", "a", "i">>,
       <<"J", "u", "n", "i">>,
       <<"J", "u", "l", "i">>,
       <<"A", "u", "g", "u", "s", "t">>,
       <<"S", "e", "p", "t", "e", "m", "b", "e", "r">>,
       <<"O", "k", "t", "o", "b", "e", "r">>,
       <<"N", "o", "v", "e", "m", "b", "e", "r">>,
       <<"D", "e", "z", "e", "m", "b", "e", "r">> >>

IsNextMonthMut(last, m) == m - last <= 2

\* main.py 785: m continues the block that ends with last
IsNextMonth(last, m) == m - last = 1

\* main.py 778-791 on sorted months: blocks holds the closed blocks, block
\* the open one
RECURSIVE SplitBlocks(_, _, _)
SplitBlocks(months, blocks, block) ==
    IF months = <<>> THEN Append(blocks, block)
    ELSE IF IsNextMonth(block[Len(block)], Head(months))
         THEN SplitBlocks(Tail(months), blocks, Append(block, Head(months)))
    ELSE SplitBlocks(Tail(months), Append(blocks, block), <<Head(months)>>)

split_into_consecutive_blocks(months) ==
    IF months = <<>> THEN <<>>
    ELSE SplitBlocks(Tail(months), <<>>, <<Head(months)>>)

\* sep.join(pieces)
RECURSIVE Join(_, _)
Join(sep, pieces) ==
    IF pieces = <<>> THEN <<>>
    ELSE IF Len(pieces) = 1 THEN pieces[1]
    ELSE pieces[1] \o sep \o Join(sep, Tail(pieces))

\* main.py 799-806: one block of one year
BlockPart(year, block) ==
    Join(<<"/">>, [i \in DOMAIN block |-> MonthNames[block[i]]])
      \o <<" ">> \o Pad4(year)

\* main.py 740-810
get_months_range_string(rows) ==
    LET unique_periods == PeriodsOf(rows)
        years == SortedInts({PeriodYear(unique_periods[i]) :
                              i \in DOMAIN unique_periods})
        monthsOf(y) == SortedInts({PeriodMonth(unique_periods[i]) :
                          i \in {k \in DOMAIN unique_periods :
                                   PeriodYear(unique_periods[k]) = y}})
        yearPart(y) ==
            LET blocks == split_into_consecutive_blocks(monthsOf(y))
            IN  Join(<<",", " ">>, [b \in DOMAIN blocks |-> BlockPart(y, blocks[b])])
    IN  IF rows = <<>> \/ unique_periods = <<>> THEN <<>>
        ELSE Join(<<",", " ">>, [k \in DOMAIN years |-> yearPart(years[k])])

\* .replace('/', '_').replace(' ', '_')
Underscored(name) ==
    [i \in DOMAIN name |-> IF name[i] \in {"/", " "} THEN "_" ELSE name[i]]

KleinereProjekte == <<"K", "l", "e", "i", "n", "e", "r", "e", " ", "P", "r", "o", "j", "e", "k", "t", "e">>

\* main.py 857 and 875: every selected name is a way of saying "all"
AllSaysAll(projects_list) ==
    \A i \in DOMAIN projects_list :
        Lower(Strip(projects_list[i])) \in {<<"a", "l", "l", "e", " ", "p", "r", "o", "j", "e", "k", "t", "e">>, <<"a", "l", "l", "e">>}

\* main.py 890-903: the months of the file name, as year * 12 + (month - 1):
\* those of the table's dates when a table with a start column is passed,
\* else every month from first_date to last_date
FilenamePeriods(first_date, last_date, table) ==
    IF table.returned /\ "start" \in Range(table.columns)
    THEN PeriodsOf(table.rows)
    ELSE IF first_date = NaT \/ last_date = NaT THEN <<>>
    ELSE LET a == first_date.date[1] * 12 + first_date.date[2] - 1
             b == last_date.date[1] * 12 + last_date.date[2] - 1
         IN  [k \in 1..(b - a + 1) |-> a + k - 1]

\* main.py 905-917: months grouped by year in the order they arrive
PeriodPart(periods) ==
    LET years == SortedInts({PeriodYear(periods[i]) : i \in DOMAIN periods})
        monthsOf(y) == SelectSeq2(periods,
                          {p \in Range(periods) : PeriodYear(p) = y})
        group(y) ==
            Join(<<"_">>, [i \in DOMAIN monthsOf(y) |->
                              Pad2(PeriodMonth(monthsOf(y)[i]))])
              \o <<"_">> \o Pad4(y)
    IN  IF Len(years) = 1 THEN group(years[1])
        ELSE Join(<<"-", "-">>, [k \in DOMAIN years |-> group(years[k])])

\* main.py 839-921
build_pdf_filename(client_name, projects_list, first_date, last_date, all_flag, table) ==
    LET Stundenauflistung == <<"S", "t", "u", "n", "d", "e", "n", "a", "u", "f", "l", "i", "s", "t", "u", "n", "g">>
        says_all == projects_list = <<>> \/ AllSaysAll(projects_list) \/ all_flag
        from_table ==
            IF /\ says_all
               /\ table.returned
               /\ "project_name" \in Range(table.columns)
            THEN ProjectsOf(table.rows)
            ELSE projects_list
        joined(list) == Join(<<"_">>, [i \in DOMAIN list |-> Underscored(list[i])])
        parts ==
            IF client_name = KleinereProjekte
            THEN <<Stundenauflistung, joined(from_table)>>
            ELSE <<Stundenauflistung>>
                   \o (IF client_name # <<>>
                       THEN <<Underscored(Strip(client_name))>> ELSE <<>>)
                   \o (IF says_all \/ joined(projects_list) = <<>>
                       THEN <<>> ELSE <<joined(projects_list)>>)
        period_part == PeriodPart(FilenamePeriods(first_date, last_date, table))
    IN  Join(<<"_">>, Append(parts, period_part)) \o <<".", "p", "d", "f">>

\* .sum() of a duration column (a missing duration is skipped)
RECURSIVE SumHours(_)
SumHours(rows) ==
    IF rows = <<>> THEN 0
    ELSE (IF Head(rows).duration_hours.nan THEN 0
          ELSE Head(rows).duration_hours.hours) + SumHours(Tail(rows))

\* sort_values(by='start', key=pd.to_datetime(..., dayfirst=True)): stable,
\* rows without a date last
DateKey(r) ==
    IF ParseDMY(r.start) = NaT THEN 1000000 ELSE DayNumber(ParseDMY(r.start).date)

RECURSIVE SortByStart(_)
SortByStart(rows) ==
    IF rows = <<>> THEN <<>>
    ELSE LET i == CHOOSE k \in DOMAIN rows :
                     /\ \A j \in DOMAIN rows : DateKey(rows[k]) <= DateKey(rows[j])
                     /\ \A j \in 1..(k - 1) : DateKey(rows[j]) # DateKey(rows[k])
         IN  <<rows[i]>> \o SortByStart(SubSeq(rows, 1, i - 1)
                                          \o SubSeq(rows, i + 1, Len(rows)))

\* .min() and .max() of the parsed start column; NaT when no row has a date
FirstDate(rows) ==
    LET dated == {i \in DOMAIN rows : ParseDMY(rows[i].start) # NaT}
    IN  IF dated = {} THEN NaT
        ELSE ParseDMY(rows[CHOOSE i \in dated :
                 \A j \in dated : DateKey(rows[i]) <= DateKey(rows[j])].start)

LastDate(rows) ==
    LET dated == {i \in DOMAIN rows : ParseDMY(rows[i].start) # NaT}
    IN  IF dated = {} THEN NaT
        ELSE ParseDMY(rows[CHOOSE i \in dated :
                 \A j \in dated : DateKey(rows[j]) <= DateKey(rows[i])].start)

NoPdf == [made |-> FALSE, months_range |-> <<>>, rows |-> <<>>, total |-> 0]

\* main.py 593-700: the title names months_range, the table shows rows, the
\* totals row shows total_hours (line 696)
generate_report_pdf_bytes(range_label, rows, hours) ==
    [made |-> TRUE, months_range |-> range_label, rows |-> rows, total |-> hours]

NoManual == [description |-> <<>>, hours |-> 0]

\* the renderer called with manual_row (streamlit_app.py 478-488): the row
\* is injected after the other rows and included in the total
RenderWithManualRow(range_label, rows, hours, manual) ==
    IF manual = NoManual THEN generate_report_pdf_bytes(range_label, rows, hours)
    ELSE generate_report_pdf_bytes(range_label,
             Append(rows, [description |-> manual.description,
                           task_name   |-> <<>>,
                           start       |-> <<>>,
                           duration    |-> Hours(manual.hours)]),
             hours + manual.hours)

\* main.py 969 and streamlit_app.py 465: total_hours
TotalHoursMut(rows) == SumHours(Tail(rows))

TotalHours(rows) == SumHours(rows)

ReportRow(client_id, client_name, project_id, project_name, start, hours) ==
    [description    |-> <<"d">>,
     user_name      |-> <<"U", "1">>,
     client_id      |-> client_id,
     client_name    |-> client_name,
     project_id     |-> project_id,
     project_name   |-> project_name,
     task_name      |-> Allgemein,
     start          |-> start,
     duration_hours |-> Hours(hours)]

\* rows get_entries_by_date can return over a long period: an ordinary
\* client with two projects, the special client, and the special client's
\* name in another letter case
ReportRows ==
    LET Acme == <<"A", "c", "m", "e">>
        Website == <<"W", "e", "b", "s", "i", "t", "e">>
        App == <<"A", "p", "p">>
    IN
    << ReportRow("c1", Acme, "p1", Website, <<"1", "5", ".", "1", "2", ".", "2", "0", "2", "4">>, 2),
       ReportRow("c1", Acme, "p1", Website, <<"1", "0", ".", "0", "1", ".", "2", "0", "2", "5">>, 1),
       ReportRow("c1", Acme, "p2", App, <<"0", "1", ".", "0", "2", ".", "2", "0", "2", "5">>, 3),
       ReportRow("c3", KleinereProjekte, "p4", <<"M", "i", "n", "i", " ", "J", "o", "b">>, <<"2", "0", ".", "0", "2", ".", "2", "0", "2", "5">>, 2),
       ReportRow("c4", Lower(KleinereProjekte), "p5", <<"W", "e", "b", "/", "S", "h", "o", "p">>, <<"0", "3", ".", "0", "3", ".", "2", "0", "2", "5">>, 1),
       ReportRow("c1", Acme, "p2", App, <<"0", "5", ".", "0", "4", ".", "2", "0", "2", "5">>, 2),
       ReportRow("c1", Acme, "p1", Website, <<"3", "0", ".", "0", "6", ".", "2", "0", "2", "5">>, 3) >>

MaxReportRows == 3

\* the tables a report starts from: up to MaxReportRows of the rows, or all
ReportTables ==
    {LET at == SelectSeq2([i \in DOMAIN ReportRows |-> i], K)
     IN  [k \in DOMAIN at |-> ReportRows[at[k]]] :
        K \in {J \in (SUBSET DOMAIN ReportRows) \ {{}} :
                 Cardinality(J) <= MaxReportRows \/ J = DOMAIN ReportRows}}

\* the non-empty selections of a project list, in the order of the list
Selections(projects_list) ==
    {LET at == SelectSeq2([i \in DOMAIN projects_list |-> i], K)
     IN  [k \in DOMAIN at |-> projects_list[at[k]]] :
        K \in (SUBSET DOMAIN projects_list) \ {{}}}

ReportIdle ==
    /\ selected_all_projects = FALSE
    /\ editable_table = <<>>
    /\ manual_row = NoManual
    /\ pdf_bytes = NoPdf
    /\ pdf_filename = <<>>

\* the command-line loop after its project prompt (main.py 929-951): a
\* client picked from the list, some or all of its projects
CliSelected ==
    \E table \in ReportTables :
    \E k \in DOMAIN table :
       LET name == Lower(Strip(table[k].client_name))
           rows == RowsOfClient(table, name, table[k].client_id)
       IN  \E picked \in Selections(ProjectsOf(rows)) :
              /\ df_date = table
              /\ selVia = "cli"
              /\ selPc = "report"
              /\ choice_client = table[k].client_name
              /\ choice_project = NoInput
              /\ selected_name = name
              /\ client_ids = <<table[k].client_id>>
              /\ df_client = rows
              /\ projects_in_client = ProjectsOf(rows)
              /\ selected_projects = picked
              /\ df_proj = DataFrame(COLUMNS, RowsOfProjects(rows, picked))
              /\ selected_all_projects = FALSE

\* the wizard after "Auswahl bestätigen" (streamlit_app.py 219-308)
WebSelected ==
    \E table \in ReportTables :
    \E client \in Range(ClientsOf(table)) :
       LET ofClient(r) == Lower(Strip(r.client_name)) = Lower(Strip(client))
           rows == RowsWhere(table, ofClient)
       IN  \E picked \in Selections(ProjectsOf(rows)) :
              LET ok(r) == /\ r.client_name = client
                           /\ r.project_name \in Range(picked)
              IN  /\ df_date = table
                  /\ selVia = "web"
                  /\ selPc = "confirmed"
                  /\ choice_client = client
                  /\ choice_project = NoInput
                  /\ selected_name = <<>>
                  /\ client_ids = <<>>
                  /\ df_client = rows
                  /\ projects_in_client = ProjectsOf(rows)
                  /\ selected_projects = picked
                  /\ df_proj = DataFrame(COLUMNS, RowsWhere(table, ok))
                  /\ selected_all_projects = (picked = ProjectsOf(rows))

ReportInit ==
    /\ CliSelected \/ WebSelected
    /\ authenticated = (selVia = "web")
    /\ confirmed_period = (selVia = "web")
    /\ data_loaded = (selVia = "web")
    /\ date_range = DefaultRange
    /\ secrets = InitialSecrets
    /\ config = config_module(InitialSecrets, NoUsername)
    /\ session = IF selVia = "web"
                 THEN login(InitialSecrets, "anna", "pw-a").session
                 ELSE NoSession
    /\ web_request = IF selVia = "web"
                     THEN EntriesRequest(DefaultRange, curYear, config)
                     ELSE NoRequest
    /\ rotated = NotRotated
    /\ editable_table = <<>>
    /\ manual_row = NoManual
    /\ pdf_bytes = NoPdf
    /\ pdf_filename = <<>>

\* writing a report touches neither the dates, the fetch nor the selection
ReportFrame == UNCHANGED <<cliVars, dateVars, fetchVars, selVars, wizVars>>

\* main.py 953-1005: one report of the command-line loop
CliWriteReport ==
    /\ ReportFrame
    /\ selVia = "cli"
    /\ selPc = "report"
    /\ ~pdf_bytes.made
    /\ LET client_name == df_proj.rows[1].client_name
           months_range == get_months_range_string(df_proj.rows)
           total_hours == TotalHours(df_proj.rows)
           by_date == SortByStart(df_proj.rows)
           clean_client == IF Lower(Strip(client_name)) = Lower(KleinereProjekte)
                           THEN <<>> ELSE client_name
       IN  /\ pdf_filename' = build_pdf_filename(clean_client, selected_projects,
                                  FirstDate(by_date), LastDate(by_date),
                                  FALSE, NoTable)
           /\ pdf_bytes' = generate_report_pdf_bytes(months_range,
                                  CliDataRows(by_date), total_hours)
    /\ UNCHANGED <<selected_all_projects, editable_table, manual_row>>

\* streamlit_app.py 310: the columns the editor shows
EditorRow(r) ==
    [description    |-> r.description,
     task_name      |-> r.task_name,
     start          |-> r.start,
     duration_hours |-> r.duration_hours]

required_cols == <<"description", "task_name", "start", "duration_hours">>

\* streamlit_app.py 313-318 (num_rows="dynamic"): what the operator can
\* make of the table in the editor: leave it, remove a row, add a row
\* without a date, or both, or remove every row
EditedTables(base) ==
    LET added == [description    |-> <<"x">>,
                  task_name      |-> <<>>,
                  start          |-> None,
                  duration_hours |-> Hours(1)]
    IN  {base, Append(base, added), <<added>>, <<>>}
          \cup (IF Len(base) > 1 THEN {SubSeq(base, 1, Len(base) - 1)} ELSE {})

\* streamlit_app.py 341-343: nothing to print, the run stops here
NoValidData(table_for_pdf) == table_for_pdf = <<>>

\* streamlit_app.py 332-334: the inputs of the optional manual row
ManualInputs ==
    {NoManual, [description |-> <<"m">>, hours |-> 2],
     [description |-> <<"m">>, hours |-> 0]}

\* streamlit_app.py 297-498: one run of the script once the selection is
\* confirmed. The first run shows the editor untouched and no button
\* pressed; a later run has the editor, the manual inputs and the button
\* "Änderungen bestätigen" as the operator left them
WebRun ==
    /\ ReportFrame
    /\ DatesPass(date_range)
    /\ selVia = "web"
    /\ selPc = "confirmed"
    /\ df_proj.rows # <<>>
    /\ \E edited \in EditedTables([i \in DOMAIN df_proj.rows |->
                                      EditorRow(SortByStart(df_proj.rows)[i])]),
          typed \in ManualInputs, confirm \in BOOLEAN :
          /\ ~pdf_bytes.made =>
                /\ edited = [i \in DOMAIN df_proj.rows |->
                                EditorRow(SortByStart(df_proj.rows)[i])]
                /\ ~confirm
                /\ typed = NoManual
          /\ LET table_for_pdf == IF editable_table = <<>> THEN edited
                                  ELSE editable_table
                 manual_now == IF ~confirm THEN manual_row
                               ELSE IF typed.description # <<>> /\ typed.hours > 0
                               THEN typed ELSE NoManual
                 pdf_now == IF confirm THEN NoPdf ELSE pdf_bytes
             IN  IF NoValidData(table_for_pdf)
                 THEN UNCHANGED <<editable_table, manual_row, pdf_filename,
                                  pdf_bytes>>
                 ELSE
                 /\ editable_table' = IF confirm THEN edited ELSE editable_table
                 /\ manual_row' = manual_now
                 /\ pdf_filename' = build_pdf_filename(choice_client,
                                        selected_projects,
                                        FirstDate(table_for_pdf),
                                        LastDate(table_for_pdf),
                                        selected_all_projects,
                                        DataFrame(required_cols, table_for_pdf))
                 /\ pdf_bytes' =
                       IF pdf_now.made THEN pdf_now
                       ELSE RenderWithManualRow(
                                get_months_range_string(table_for_pdf),
                                WebDataRows(table_for_pdf),
                                TotalHours(table_for_pdf), manual_now)
    /\ UNCHANGED selected_all_projects

ReportNext ==
    \/ CliWriteReport
    \/ WebRun

(***************************************************************************)
(* The web wizard as a whole (streamlit_app.py 23-535): one script run per *)
(* action                                                                  *)
(***************************************************************************)
WizardIdle ==
    /\ authenticated = FALSE
    /\ confirmed_period = FALSE
    /\ data_loaded = FALSE
    /\ date_range = DefaultRange
    /\ session = NoSession
    /\ secrets = InitialSecrets
    /\ config = config_module(InitialSecrets, NoUsername)
    /\ web_request = NoRequest
    /\ rotated = NotRotated

\* the tables the service can return for a confirmed period
WizardTables ==
    {t \in ReportTables : Len(t) = 1 \/ Len(t) = Len(ReportRows)}

WizardInit == WizardIdle /\ SelectIdle /\ ReportIdle

\* the secrets, the imported module and the rotation log stay as they are
\* while the wizard runs
ServerFrame == UNCHANGED <<secrets, config, rotated>>

\* streamlit_app.py 29-51: "Anmelden" with a user name and a password, in
\* the web application (the command-line program has no such form)
Login ==
    /\ cliPc = "idle"
    /\ ~authenticated
    /\ \E username \in {"anna", "ben", "eve"},
          password \in {"pw-a", "pw-b", "pw-n", "pw-m"} :
          LET r == login(secrets, username, password)
          IN  /\ authenticated' = r.authenticated
              /\ session' = r.session
    /\ ServerFrame
    /\ UNCHANGED <<cliVars, dateVars, fetchVars, selVars, repVars, confirmed_period,
                   data_loaded, date_range, web_request>>

\* streamlit_app.py 153-158: the operator picks dates in the date input,
\* which every run of the script shows once logged in
PickDates ==
    /\ authenticated
    /\ \E picked \in DateRanges : date_range' = picked
    /\ ServerFrame
    /\ UNCHANGED <<cliVars, dateVars, fetchVars, selVars, repVars, authenticated,
                   confirmed_period, data_loaded, session, web_request>>

\* streamlit_app.py 170-180: "Zeitraum bestätigen"
ConfirmPeriod ==
    /\ authenticated
    /\ DatesPass(date_range)
    /\ ~confirmed_period
    /\ confirmed_period' = TRUE
    /\ ServerFrame
    /\ UNCHANGED <<cliVars, dateVars, fetchVars, selVars, repVars, authenticated,
                   data_loaded, date_range, session, web_request>>

\* streamlit_app.py 183-232: a run with the period confirmed and no data
\* loads the entries with the names imported from config; an empty answer
\* stops the run, a table is kept and the client box is shown
LoadData ==
    /\ authenticated
    /\ DatesPass(date_range)
    /\ confirmed_period
    /\ ~data_loaded
    /\ web_request' = EntriesRequest(date_range, curYear, config)
    /\ \E table \in WizardTables \cup {<<>>} :
          IF table = <<>>
          THEN UNCHANGED <<df_date, data_loaded, selVia, selPc>>
          ELSE /\ df_date' = table
               /\ data_loaded' = TRUE
               /\ selVia' = "web"
               /\ selPc' = "select_client"
    /\ ServerFrame
    /\ UNCHANGED <<cliVars, dateVars, fetchVars, repVars, authenticated,
                   confirmed_period, choice_client, choice_project,
                   selected_name, client_ids, df_client, projects_in_client,
                   selected_projects, df_proj, date_range, session>>

\* streamlit_app.py 504-518: "Neuer Zeitraum"
NeuerZeitraum ==
    /\ selVia = "web"
    /\ DatesPass(date_range)
    /\ pdf_bytes.made
    /\ date_range' = DefaultRange
    /\ ServerFrame
    /\ UNCHANGED <<session, web_request>>
    /\ confirmed_period' = FALSE
    /\ data_loaded' = FALSE
    /\ df_date' = <<>>
    /\ selVia' = "none"
    /\ selPc' = "loaded"
    /\ df_client' = <<>>
    /\ projects_in_client' = <<>>
    /\ selected_projects' = <<>>
    /\ df_proj' = NoTable
    /\ pdf_bytes' = NoPdf
    /\ pdf_filename' = <<>>
    /\ editable_table' = <<>>
    /\ UNCHANGED <<cliVars, dateVars, fetchVars, authenticated, choice_client,
                   choice_project, selected_name, client_ids, manual_row,
                   selected_all_projects>>

\* streamlit_app.py 519-528: "Weitere Kunden"
WeitereKunden ==
    /\ selVia = "web"
    /\ DatesPass(date_range)
    /\ pdf_bytes.made
    /\ ServerFrame
    /\ UNCHANGED <<date_range, session, web_request>>
    /\ data_loaded' = FALSE
    /\ df_date' = <<>>
    /\ selVia' = "none"
    /\ selPc' = "loaded"
    /\ choice_client' = NoInput
    /\ df_client' = <<>>
    /\ projects_in_client' = <<>>
    /\ selected_projects' = <<>>
    /\ df_proj' = NoTable
    /\ pdf_bytes' = NoPdf
    /\ pdf_filename' = <<>>
    /\ editable_table' = <<>>
    /\ UNCHANGED <<cliVars, dateVars, fetchVars, authenticated, confirmed_period,
                   choice_project, selected_name, client_ids, manual_row,
                   selected_all_projects>>

\* streamlit_app.py 529-535: "Beenden"
Beenden ==
    /\ selVia = "web"
    /\ DatesPass(date_range)
    /\ pdf_bytes.made
    /\ date_range' = DefaultRange
    /\ session' = NoSession
    /\ ServerFrame
    /\ UNCHANGED web_request
    /\ authenticated' = FALSE
    /\ confirmed_period' = FALSE
    /\ data_loaded' = FALSE
    /\ df_date' = <<>>
    /\ selVia' = "none"
    /\ selPc' = "loaded"
    /\ choice_client' = NoInput
    /\ choice_project' = NoInput
    /\ selected_name' = <<>>
    /\ client_ids' = <<>>
    /\ df_client' = <<>>
    /\ projects_in_client' = <<>>
    /\ selected_projects' = <<>>
    /\ df_proj' = NoTable
    /\ selected_all_projects' = FALSE
    /\ editable_table' = <<>>
    /\ manual_row' = NoManual
    /\ pdf_bytes' = NoPdf
    /\ pdf_filename' = <<>>
    /\ UNCHANGED <<cliVars, dateVars, fetchVars>>

\* rotate_secrets.py 23-50 and 52-61: the administrator rotates the password
\* of a user on the server; for a name without [users] entry the call
\* raises and writes nothing
RotateSecrets ==
    /\ \E username \in {"anna", "ben", "admin"}, raw \in {"pw-n", "pw-m"} :
          LET r == update_secrets_for_user(secrets, username, raw)
          IN  IF r.raised
              THEN UNCHANGED <<secrets, rotated>>
              ELSE /\ secrets' = r.data
                   /\ rotated' = [username |-> username, raw |-> raw,
                                  before |-> secrets]
    /\ UNCHANGED <<cliVars, dateVars, fetchVars, selVars, repVars, authenticated,
                   confirmed_period, data_loaded, date_range, session, config,
                   web_request>>

\* the login form and the date input while passwords are rotated
SecretsNext ==
    \/ RotateSecrets
    \/ Login
    \/ PickDates
    \/ ConfirmPeriod

WizardNext ==
    \/ Login
    \/ PickDates
    \/ ConfirmPeriod
    \/ LoadData
    \/ ChooseClient
    \/ ChooseProjects
    \/ SelectAllProjects
    \/ ConfirmSelection
    \/ WebRun
    \/ NeuerZeitraum
    \/ WeitereKunden
    \/ Beenden

\* how often New Year passes while the program runs
MaxYearTicks == 1

(***************************************************************************)
(* The command-line program: period prompt, load, report loop              *)
(***************************************************************************)
\* what an operator types at a date prompt
PeriodInputs ==
    { <<"0", "5", ".", "0", "1", ".", "2", "0", "2", "5">>, <<" ", "0", "3", "-", "0", "1">>, <<"3", "1", ".", "0", "2", ".", "2", "0", "2", "5">>, <<"x">> }

StartAfterEndMut(s, e) == StrLess(s, e)

\* main.py 823: the period is refused when the start sorts after the end
StartAfterEnd(s, e) == StrLess(e, s)

\* main.py 813-830: one pass of the loop, the two lines typed and the year
\* of the wall clock at each conversion given
choose_period(typed_start, typed_end, year_start, year_end) ==
    LET s == to_iso_format(Strip(typed_start), FALSE, year_start)
        e == to_iso_format(Strip(typed_end), TRUE, year_end)
    IN  IF s = ValueError \/ e = ValueError
        THEN [kind |-> "continue", why |-> "ValueError", pair |-> <<>>]
        ELSE IF StartAfterEnd(s.iso, e.iso)
        THEN [kind |-> "continue", why |-> "order", pair |-> <<>>]
        ELSE [kind |-> "return", why |-> "", pair |-> <<s.iso, e.iso>>]

\* the tables the service answers the command-line program with
CliTables == {<<LoadedRows[1]>>, <<LoadedRows[4], LoadedRows[5]>>}

CliIdle ==
    /\ cliPc = "idle"
    /\ raw_start = NoInput
    /\ raw_end = NoInput
    /\ start_iso = <<>>
    /\ end_iso = <<>>
    /\ exit_status = 0

CliInit ==
    /\ cliPc = "start"
    /\ raw_start = NoInput
    /\ raw_end = NoInput
    /\ start_iso = <<>>
    /\ end_iso = <<>>
    /\ exit_status = 0

CliFrame == UNCHANGED <<fetchVars, repVars, wizVars, dateStr, dateShape,
                        isoStart, isoEnd, nowAt>>

\* main.py 1018-1023: the program refuses to start without its logo, style
\* sheet or template; the FileNotFoundError is caught nowhere
StartProgram ==
    /\ cliPc = "start"
    /\ \E files_exist \in BOOLEAN :
          IF files_exist
          THEN cliPc' = "choose_period" /\ UNCHANGED exit_status
          ELSE cliPc' = "uncaught" /\ exit_status' = 1
    /\ UNCHANGED <<raw_start, raw_end, start_iso, end_iso, curYear, selVars>>
    /\ CliFrame

\* main.py 813-830 and 1027: two lines read at the period prompt; New Year
\* may pass before the second is converted
ChoosePeriod ==
    /\ cliPc = "choose_period"
    /\ \E typed_start \in PeriodInputs, typed_end \in PeriodInputs,
          year_end \in {curYear, curYear + 1} :
          LET r == choose_period(typed_start, typed_end, curYear, year_end)
          IN  /\ year_end <= 2024 + MaxYearTicks
              /\ curYear' = year_end
              /\ raw_start' = typed_start
              /\ raw_end' = typed_end
              /\ IF r.kind = "return"
                 THEN /\ start_iso' = r.pair[1]
                      /\ end_iso' = r.pair[2]
                      /\ cliPc' = "fetch"
                 ELSE UNCHANGED <<start_iso, end_iso, cliPc>>
    /\ UNCHANGED <<exit_status, selVars>>
    /\ CliFrame

\* main.py 1028-1035 and 930-938: the entries are loaded; a failed request
\* raises out of get_entries_by_date (main.py 85) and nothing catches it; an
\* empty table ends the program, any other opens the report loop
FetchEntries ==
    /\ cliPc = "fetch"
    /\ \E outcome \in {"raised", "returned"}, table \in CliTables \cup {<<>>} :
          IF outcome = "raised"
          THEN /\ cliPc' = "uncaught"
               /\ exit_status' = 1
               /\ UNCHANGED <<df_date, selVia, selPc>>
          ELSE IF table = <<>>
          THEN /\ cliPc' = "exit"
               /\ exit_status' = 0
               /\ UNCHANGED <<df_date, selVia, selPc>>
          ELSE /\ cliPc' = "reports_loop"
               /\ df_date' = table
               /\ selVia' = "cli"
               /\ selPc' = IF ClientRecords(CleanClients(table)) = <<>>
                            THEN "exit" ELSE "client_prompt"
               /\ UNCHANGED exit_status
    /\ UNCHANGED <<raw_start, raw_end, start_iso, end_iso, curYear,
                   choice_client, choice_project, selected_name, client_ids,
                   df_client, projects_in_client, selected_projects, df_proj>>
    /\ CliFrame

\* main.py 292, 364, 936, 949 and 1012: sys.exit(0) at a prompt or in the
\* loop, or the loop left after the last report; the process ends
ProgramEnds ==
    /\ cliPc = "reports_loop"
    /\ selPc = "exit"
    /\ cliPc' = "exit"
    /\ exit_status' = 0
    /\ UNCHANGED <<raw_start, raw_end, start_iso, end_iso, curYear, selVars>>
    /\ CliFrame

CliNext ==
    \/ StartProgram
    \/ ChoosePeriod
    \/ FetchEntries
    \/ ClientPrompt
    \/ IdPrompt
    \/ ProjectPrompt
    \/ Again
    \/ ProgramEnds

(***************************************************************************)
(* The date normalizer applied to operator input                           *)
(***************************************************************************)

\* what an operator types between the separators
DateTokens ==
    { <<"1">>, <<"0", "2">>, <<"1", "3">>, <<"2", "9">>, <<"3", "2">>, <<"0">>,
      <<"1", "2", "3">>, <<"2", "0", "2", "4">>, <<"2", "0", "2", "5">> }

TypedSeps == {".", "-", "/", ":"}

DateShapes ==
    [toks : DateTokens \X DateTokens, seps : {<<a>> : a \in TypedSeps},
     pad : BOOLEAN]
    \cup
    [toks : DateTokens \X DateTokens \X DateTokens,
     seps : TypedSeps \X TypedSeps, pad : BOOLEAN]

\* the text of a shape: tokens joined by the separators, blanks around it
ShapeText(sh) ==
    LET body == IF Len(sh.toks) = 2
                THEN sh.toks[1] \o <<sh.seps[1]>> \o sh.toks[2]
                ELSE sh.toks[1] \o <<sh.seps[1]>> \o sh.toks[2]
                       \o <<sh.seps[2]>> \o sh.toks[3]
    IN  IF sh.pad THEN <<" ">> \o body \o <<" ", " ">> ELSE body

DateInit ==
    /\ dateShape \in DateShapes
    /\ dateStr = ShapeText(dateShape)
    /\ curYear = 2024
    /\ isoStart = NotCalled
    /\ isoEnd = NotCalled
    /\ nowAt = [start |-> 0, end |-> 0]

DateIdle ==
    /\ dateShape = [toks |-> <<>>, seps |-> <<>>, pad |-> FALSE]
    /\ dateStr = <<>>
    /\ curYear = 2024
    /\ isoStart = NotCalled
    /\ isoEnd = NotCalled
    /\ nowAt = [start |-> 0, end |-> 0]

\* to_iso_format touches nothing but its own result
DateFrame == UNCHANGED <<cliVars, fetchVars, selVars, repVars, wizVars>>

\* to_iso_format(date_str, is_end=False)
CallStart ==
    /\ isoStart = NotCalled
    /\ isoStart' = to_iso_format(dateStr, FALSE, curYear)
    /\ nowAt' = [nowAt EXCEPT !.start = curYear]
    /\ UNCHANGED <<dateStr, dateShape, curYear, isoEnd>>
    /\ DateFrame

\* to_iso_format(date_str, is_end=True); every caller (choose_period, get_data,
\* the web form) normalizes the start of the period first
CallEnd ==
    /\ isoStart # NotCalled
    /\ isoEnd = NotCalled
    /\ isoEnd' = to_iso_format(dateStr, TRUE, curYear)
    /\ nowAt' = [nowAt EXCEPT !.end = curYear]
    /\ UNCHANGED <<dateStr, dateShape, curYear, isoStart>>
    /\ DateFrame

\* the wall clock passes New Year between two calls
TickYear ==
    /\ curYear < 2024 + MaxYearTicks
    /\ curYear' = curYear + 1
    /\ UNCHANGED <<dateStr, dateShape, isoStart, isoEnd, nowAt>>
    /\ DateFrame

DateNext == CallStart \/ CallEnd \/ TickYear

\* each program run starts one component; the others stay as constructed
InitDate == DateInit /\ FetchInit /\ SelectIdle /\ ReportIdle /\ WizardIdle /\ CliIdle

InitFetch == FetchInit /\ DateIdle /\ SelectIdle /\ ReportIdle /\ WizardIdle /\ CliIdle

InitSelect == SelectInit /\ FetchInit /\ DateIdle /\ ReportIdle /\ WizardIdle /\ CliIdle

SpecDate == InitDate /\ [][DateNext]_vars

SpecFetch == InitFetch /\ [][FetchNext]_vars

SpecSelect == InitSelect /\ [][SelectNext]_vars

InitReport == ReportInit /\ FetchInit /\ DateIdle /\ CliIdle

SpecReport == InitReport /\ [][ReportNext]_vars

InitWizard == WizardInit /\ FetchInit /\ DateIdle /\ CliIdle

SpecWizard == InitWizard /\ [][WizardNext]_vars

SpecSecrets == InitWizard /\ [][SecretsNext]_vars

InitCli == CliInit /\ FetchInit /\ DateIdle /\ SelectIdle /\ ReportIdle /\ WizardIdle

SpecCli == InitCli /\ [][CliNext]_vars

\* either program, started and followed up to its request for the entries
PeriodNext ==
    \/ StartProgram
    \/ ChoosePeriod
    \/ FetchEntries
    \/ Login
    \/ PickDates
    \/ ConfirmPeriod
    \/ LoadData

InitPeriod == InitCli \/ InitWizard

SpecPeriod == InitPeriod /\ [][PeriodNext]_vars

(***************************************************************************)
(* Claims about the date normalizer                                        *)
(***************************************************************************)
BothReturned == isoStart.err = "" /\ isoEnd.err = ""

TypedWithoutYear == Len(dateShape.toks) = 2

IsoYear(iso) == ToInt(SubSeq(iso, 1, 4))

\* C1: whenever both calls on the same date string return, the start
\* boundary is strictly below the end boundary as the code compares them
\* (str <), the two are 00:00:00 and 23:59:59, of the same day unless the
\* year was defaulted and New Year passed between the calls, and a string
\* typed without a year gets the year datetime.now() gave the call.
C1_StartBeforeEnd ==
    BothReturned =>
        /\ StrLess(isoStart.iso, isoEnd.iso)
        /\ SubSeq(isoStart.iso, 11, 20)
             = <<"T", "0", "0", ":", "0", "0", ":", "0", "0", "Z">>
        /\ SubSeq(isoEnd.iso, 11, 20)
             = <<"T", "2", "3", ":", "5", "9", ":", "5", "9", "Z">>
        /\ SubSeq(isoStart.iso, 5, 10) = SubSeq(isoEnd.iso, 5, 10)
        /\ (~TypedWithoutYear \/ nowAt.start = nowAt.end)
              => SubSeq(isoStart.iso, 1, 4) = SubSeq(isoEnd.iso, 1, 4)
        /\ TypedWithoutYear
              => /\ IsoYear(isoStart.iso) = nowAt.start
                 /\ IsoYear(isoEnd.iso) = nowAt.end

\* a day typed without a year, normalized at both boundaries
C1_Witness ==
    /\ BothReturned
    /\ TypedWithoutYear
    /\ dateShape.toks = <<(<<"1", "3">>), (<<"0", "2">>)>>

\* the forms the docstring of to_iso_format and the specification list:
\* D-M, D.M, D/M, D-M-Y, D.M.Y, D/M/Y (one separator throughout) and Y-M-D,
\* with a day in 1..31 and a month in 1..12
IsDayTok(t)   == Len(t) \in 1..2 /\ ToInt(t) \in 1..31
IsMonthTok(t) == Len(t) \in 1..2 /\ ToInt(t) \in 1..12
IsYearTok(t)  == Len(t) = 4

DocumentedForm(sh) ==
    IF Len(sh.toks) = 2
    THEN /\ sh.seps[1] \in DateSeps
         /\ IsDayTok(sh.toks[1]) /\ IsMonthTok(sh.toks[2])
    ELSE \/ /\ sh.seps[1] \in DateSeps /\ sh.seps[2] = sh.seps[1]
            /\ IsDayTok(sh.toks[1]) /\ IsMonthTok(sh.toks[2])
            /\ IsYearTok(sh.toks[3])
         \/ /\ sh.seps = <<"-", "-">>
            /\ IsYearTok(sh.toks[1]) /\ IsMonthTok(sh.toks[2])
            /\ IsDayTok(sh.toks[3])

\* C2: a string that matches none of the accepted forms (D/M, which the
\* docstring accepts, counted among them) makes to_iso_format raise
\* ValueError and return no timestamp.
C2_RejectsOtherForms ==
    ~DocumentedForm(dateShape) =>
        /\ isoStart \in {NotCalled, ValueError}
        /\ isoEnd \in {NotCalled, ValueError}

(***************************************************************************)
(* Claims about the paginated fetcher and the entry assembler              *)
(***************************************************************************)
LogOf(ep) == SelectSeq(reqLog, LAMBDA r : r.endpoint = ep)

EndpointsLogged == {reqLog[i].endpoint : i \in DOMAIN reqLog}

\* what the fetch_all call on an endpoint returned to get_entries_by_date
ReturnedBy(ep) ==
    IF ep.path = "projects" THEN projects
    ELSE IF ep.path = "clients" THEN clients
    ELSE IF ep.path = "users" THEN users
    ELSE IF \E i \in DOMAIN rawSeen : rawSeen[i].user = ep.user
         THEN Fetched(rawSeen[CHOOSE i \in DOMAIN rawSeen :
                                 rawSeen[i].user = ep.user].entries)
         ELSE Unset

PagesOf(log) == Concat([i \in DOMAIN log |-> log[i].items])

CallerParams(ep) ==
    IF ep.path = "time-entries" THEN {"start", "end"} ELSE {}

\* pages 1, 2, 3, ... in order, all but the last one non-empty, and the
\* concatenation of the pages returned once the empty page came
PagesInOrder(ep) ==
    LET log == LogOf(ep)
    IN  /\ \A i \in DOMAIN log :
              /\ log[i].query.page = i
              /\ CallerParams(ep) \subseteq DOMAIN log[i].query
              /\ i < Len(log) => log[i].ok /\ log[i].items # <<>>
        /\ ReturnedBy(ep).set =>
              /\ log[Len(log)].ok /\ log[Len(log)].items = <<>>
              /\ ReturnedBy(ep).items = PagesOf(log)

FetchAllConcatenates == \A ep \in EndpointsLogged : PagesInOrder(ep)

\* C3: fetch_all requests pages 1, 2, 3, ... in order, each with the fixed
\* page size (page-size = PAGE_SIZE) and the caller's filter parameters,
\* stops at the first empty page and returns the concatenation of the
\* pages before it.
C3_PagesWithFixedSize ==
    \A ep \in EndpointsLogged :
        /\ PagesInOrder(ep)
        /\ \A i \in DOMAIN LogOf(ep) :
              /\ "page-size" \in DOMAIN LogOf(ep)[i].query
              /\ LogOf(ep)[i].query["page-size"] = PAGE_SIZE

\* C4: a failed page request is the last request sent (it is not retried
\* and nothing is fetched after it), the error leaves get_entries_by_date
\* without a returned table, and fetch_all handed no partial list of the
\* pages it had to its caller.
C4_FailureIsFatal ==
    /\ \A i \in DOMAIN reqLog :
          ~reqLog[i].ok =>
              /\ i = Len(reqLog)
              /\ gPc = "raised"
              /\ ~ReturnedBy(reqLog[i].endpoint).set
    /\ gPc = "raised" => result = NoTable /\ reportVia = "none"
    /\ result.returned => \A i \in DOMAIN reqLog : reqLog[i].ok

\* a later page of the second user fails after a frame was assembled
C4_Witness ==
    /\ gPc = "raised"
    /\ all_frames # <<>>
    /\ faItems # <<>>
    /\ userIdx = 2

IsBlankName(n) == n = None \/ \A i \in DOMAIN n : n[i] = " "

\* C5: every row of the returned table has a non-blank client_name and
\* project_name, its project id is in the project table and that project's
\* client id is in the client table.
C5_NamesResolved ==
    result.returned =>
        \A k \in DOMAIN result.rows :
            LET row == result.rows[k]
            IN  /\ ~IsBlankName(row.client_name)
                /\ ~IsBlankName(row.project_name)
                /\ \E i \in DOMAIN projects.items :
                      /\ projects.items[i].id = row.project_id
                      /\ \E j \in DOMAIN clients.items :
                            clients.items[j].id = projects.items[i].clientId

\* a table returned with one entry kept and another one dropped
C5_Witness ==
    /\ result.returned
    /\ result.rows # <<>>
    /\ Len(result.rows) < RawCount

\* C6: on every return path the table has exactly the nine TimeEntry
\* columns, in order.
C6_ColumnsOnEveryReturn ==
    result.returned =>
        result.columns =
            <<"description", "user_name", "client_id", "client_name",
              "project_id", "project_name", "task_name", "start",
              "duration_hours">>

AssembledRows == Concat(all_frames)
RawRows == Concat([i \in DOMAIN rawSeen |-> rawSeen[i].entries])

\* C7: two raw entries with the same projectId get the same project_name,
\* client_id and client_name whatever is embedded in their payloads, and
\* every returned row is one of the rows so assembled.
C7_JoinByProjectId ==
    /\ Len(AssembledRows) = Len(RawRows) =>
          \A i, j \in DOMAIN RawRows :
              RawRows[i].projectId = RawRows[j].projectId =>
                  /\ AssembledRows[i].project_name = AssembledRows[j].project_name
                  /\ AssembledRows[i].client_id = AssembledRows[j].client_id
                  /\ AssembledRows[i].client_name = AssembledRows[j].client_name
    /\ result.returned =>
          /\ Len(AssembledRows) = Len(RawRows)
          /\ \A k \in DOMAIN result.rows :
                \E i \in DOMAIN AssembledRows : result.rows[k] = AssembledRows[i]

\* two entries of one project, one with stale embedded fields, both returned
C7_Witness ==
    /\ result.returned
    /\ Len(result.rows) = 2
    /\ Len(RawRows) = 2
    /\ RawRows[1].projectId = RawRows[2].projectId
    /\ RawRows[1].project # RawRows[2].project

\* C8: every row that reaches a report has a task name that is not blank.
C8_TaskNameNeverBlank ==
    reportVia # "none" =>
        \A k \in DOMAIN reportRows : ~IsBlankName(reportRows[k].task_name)

\* C9: every row of the returned table has a defined duration that is not
\* negative.
C9_DurationDefined ==
    result.returned =>
        \A k \in DOMAIN result.rows :
            /\ ~result.rows[k].duration_hours.nan
            /\ result.rows[k].duration_hours.hours >= 0

(***************************************************************************)
(* Claims about client and project selection                               *)
(***************************************************************************)
\* two names are equal ignoring case: same length, and at each place the
\* same character or the two cases of one letter
SameIgnoringCase(a, b) ==
    /\ Len(a) = Len(b)
    /\ \A i \in DOMAIN a :
          \/ a[i] = b[i]
          \/ /\ {CharOrd(a[i]), CharOrd(b[i])} \subseteq (65..90) \cup (97..122)
             /\ CharOrd(a[i]) - CharOrd(b[i]) \in {32, -32}

\* a line typed at a prompt that names something: not the exit key, not a
\* number, not empty
TypedName(typed) ==
    /\ typed # NoInput
    /\ Strip(typed) # <<>>
    /\ ~SameIgnoringCase(Strip(typed), <<"x">>)
    /\ ~IsDigits(Strip(typed))

\* a line typed at the project prompt that lists names (not only numbers)
TypedProjectNames(typed) ==
    /\ TypedName(typed)
    /\ Tokens(Strip(typed)) # <<>>
    /\ \E i \in DOMAIN Tokens(Strip(typed)) : ~IsDigits(Tokens(Strip(typed))[i])

\* the rows of a table whose client and project pass two tests
RowsNamed(df, clientOk(_), projectOk(_)) ==
    LET ok(r) == clientOk(r.client_name) /\ projectOk(r.project_name)
    IN  RowsWhere(df, ok)

\* get_data's filters return exactly the rows whose client and project
\* equal the arguments ignoring case
PureFiltersIgnoreCase ==
    selPc = "filtered" =>
        LET clientOk(n) == SameIgnoringCase(n, choice_client)
            projectOk(n) == SameIgnoringCase(n, choice_project)
        IN  df_proj.rows = RowsNamed(df_date, clientOk, projectOk)

\* a client name typed at the CLI prompt is accepted exactly when a client
\* of the table has that name ignoring case, and then only rows of that
\* name are selected
CliClientIgnoresCase ==
    (selVia = "cli" /\ TypedName(choice_client)) =>
        LET known == \E i \in DOMAIN df_date :
                        SameIgnoringCase(Strip(df_date[i].client_name),
                                         Strip(choice_client))
        IN  IF selPc = "client_prompt" THEN ~known
            ELSE /\ known
                 /\ \A i \in DOMAIN df_client :
                       SameIgnoringCase(df_client[i].client_name,
                                        Strip(choice_client))

\* project names typed at the CLI prompt select the offered projects that
\* equal one of them ignoring case, and are turned down only when there is
\* no such project
CliProjectIgnoresCase ==
    (selVia = "cli" /\ TypedProjectNames(choice_project)) =>
        LET tokens == Tokens(Strip(choice_project))
            named(i) == \E k \in DOMAIN tokens :
                           SameIgnoringCase(projects_in_client[i], tokens[k])
            at == Positions(Len(projects_in_client), named)
            wanted == [k \in DOMAIN at |-> projects_in_client[at[k]]]
        IN  /\ selPc = "project_prompt" => wanted = <<>>
            /\ selPc = "report" =>
                  /\ selected_projects = wanted
                  /\ df_proj.rows = RowsOfProjects(df_client, wanted)

\* the client chosen in the wizard selects the rows of that name ignoring
\* case, within the chosen projects
WebClientIgnoresCase ==
    selPc = "confirmed" =>
        LET clientOk(n) == SameIgnoringCase(n, choice_client)
            projectOk(n) == n \in Range(selected_projects)
        IN  df_proj.rows = RowsNamed(df_date, clientOk, projectOk)

\* C10: client and project selection is case-insensitive equality in every
\* selection path: the pure filters return exactly the rows whose name
\* equals the argument ignoring case, and a name typed at the CLI prompts
\* or chosen in the web wizard selects the same rows whatever its letter
\* case
C10_SelectionIgnoresCase ==
    /\ PureFiltersIgnoreCase
    /\ CliClientIgnoresCase
    /\ CliProjectIgnoresCase
    /\ WebClientIgnoresCase

(***************************************************************************)
(* Claims about the round trip, ambiguous and unknown names                *)
(***************************************************************************)
\* Enter at the CLI project prompt selected the rows of the client
CliAllProjectsRoundTrip ==
    (selVia = "cli" /\ selPc = "report" /\ Strip(choice_project) = <<>>) =>
        df_proj.rows = df_client

\* all projects of the client chosen in the wizard selected the rows of
\* the client
WebAllProjectsRoundTrip ==
    (selPc = "confirmed" /\ Range(selected_projects) = Range(projects_in_client)) =>
        df_proj.rows = df_client

\* C11: filtering by client and then selecting all projects yields the
\* same rows as filtering by client alone, in the CLI flow and in the web
\* wizard
C11_AllProjectsRoundTrip ==
    /\ CliAllProjectsRoundTrip
    /\ WebAllProjectsRoundTrip

\* the client ids among rows
IdsOf(rows) == {rows[i].client_id : i \in DOMAIN rows}

\* the ids of the table's clients whose name equals a name ignoring case
IdsNamed(name) ==
    {df_date[i].client_id : i \in {k \in DOMAIN df_date :
        SameIgnoringCase(Strip(df_date[k].client_name), Strip(name))}}

\* select_client_id returns an id only for a name with one id
SelectClientIdRefusesAmbiguity ==
    (selVia = "select_client_id" /\ selPc = "return") =>
        Cardinality(IdsNamed(choice_client)) = 1

\* the rows the CLI prompts selected belong to one client id
CliNeverCombinesIds ==
    (selVia = "cli" /\ selPc \in {"project_prompt", "report"}) =>
        Cardinality(IdsOf(df_client)) = 1

\* the rows get_data's client filter selected belong to one client id
GetDataNeverCombinesIds ==
    selVia = "get_data" => Cardinality(IdsOf(df_client)) <= 1

\* the rows of the client chosen in the wizard belong to one client id
WebNeverCombinesIds ==
    selVia = "web" => Cardinality(IdsOf(df_client)) <= 1

\* C12: in every path that selects a client by name, a name that maps to
\* more than one client id raises an ambiguity error or forces a choice;
\* rows of two client ids sharing a name are never combined
C12_AmbiguousClientRefused ==
    /\ SelectClientIdRefusesAmbiguity
    /\ CliNeverCombinesIds
    /\ GetDataNeverCombinesIds
    /\ WebNeverCombinesIds

\* a client of the table has this name, ignoring case and blanks around it
KnownClient(name) == IdsNamed(name) # {}

\* an offered project has this name, ignoring case
KnownProject(name, offered) ==
    \E i \in DOMAIN offered : SameIgnoringCase(offered[i], name)

\* select_client_id and the CLI client prompt turn an unknown name down
UnknownClientRefused ==
    /\ (selVia = "select_client_id" /\ selPc = "return") =>
            KnownClient(choice_client)
    /\ (selVia = "cli" /\ TypedName(choice_client) /\ selPc # "client_prompt") =>
            KnownClient(choice_client)

\* a line of project names is accepted at the CLI prompt only when every
\* name on it is an offered project
UnknownProjectRefused ==
    (selVia = "cli" /\ selPc = "report" /\ TypedProjectNames(choice_project)) =>
        \A k \in DOMAIN Tokens(Strip(choice_project)) :
            KnownProject(Tokens(Strip(choice_project))[k], projects_in_client)

\* get_data hands over a table only for a client and a project of the
\* loaded data
GetDataRefusesUnknown ==
    (selVia = "get_data" /\ df_proj.returned) =>
        /\ KnownClient(choice_client)
        /\ KnownProject(choice_project,
                        [i \in DOMAIN df_client |-> df_client[i].project_name])

\* C13: selecting a client or project name that is not in the loaded data
\* fails and produces no filtered table; a list of project names with an
\* unknown name in it is not accepted as a selection of the others
C13_UnknownNameRefused ==
    /\ UnknownClientRefused
    /\ UnknownProjectRefused
    /\ GetDataRefusesUnknown


(***************************************************************************)
(* Claims about the period label, the file name and the totals             *)
(***************************************************************************)
\* the (year, month) pairs among the dates of rows
MonthsPresent(rows) ==
    {<<ParseDMY(rows[i].start).date[1], ParseDMY(rows[i].start).date[2]>> :
        i \in {k \in DOMAIN rows : ParseDMY(rows[k].start) # NaT}}

\* the maximal runs of consecutive months of one year among a set of
\* (year, month) pairs, as <<year, first month, last month>>
MaximalRuns(present) ==
    {<<ym[1], ym[2], b>> : ym \in present, b \in 1..12} \cap
    {run \in {ym[1] : ym \in present} \X (1..12) \X (1..12) :
        /\ run[2] <= run[3]
        /\ \A m \in run[2]..run[3] : <<run[1], m>> \in present
        /\ <<run[1], run[2] - 1>> \notin present
        /\ <<run[1], run[3] + 1>> \notin present}

\* the label the claim describes: one part per maximal run in ascending
\* order, the month names of a run joined by '/', the parts joined by ', '
RunsLabel(rows) ==
    LET runs == MaximalRuns(MonthsPresent(rows))
        keys == SortedInts({run[1] * 12 + run[2] : run \in runs})
        runAt(k) == CHOOSE run \in runs : run[1] * 12 + run[2] = keys[k]
        part(run) ==
            Join(<<"/">>, [i \in 1..(run[3] - run[2] + 1) |->
                              MonthNames[run[2] + i - 1]])
              \o <<" ">> \o Pad4(run[1])
    IN  Join(<<",", " ">>, [k \in DOMAIN keys |-> part(runAt(k))])

\* C14: the period label of a report names each distinct (year, month) of
\* its rows once, in ascending order, '/' joining exactly the consecutive
\* months of one year and ', ' separating the runs
C14_LabelNamesRuns ==
    pdf_bytes.made => pdf_bytes.months_range = RunsLabel(pdf_bytes.rows)

\* C14 witness: rows of January, February and April 2025 are labelled
\* 'Januar/Februar 2025, April 2025'
C14_Witness ==
    /\ pdf_bytes.made
    /\ MonthsPresent(pdf_bytes.rows) = {<<2025, 1>>, <<2025, 2>>, <<2025, 4>>}
    /\ pdf_bytes.months_range = <<"J", "a", "n", "u", "a", "r", "/", "F", "e", "b", "r", "u", "a", "r", " ", "2", "0", "2", "5", ",", " ", "A", "p", "r", "i", "l", " ", "2", "0", "2", "5">>

\* December 2024 and January 2025 make two runs
C14_YearBoundary ==
    /\ pdf_bytes.made
    /\ MonthsPresent(pdf_bytes.rows) = {<<2024, 12>>, <<2025, 1>>}
    /\ pdf_bytes.months_range = <<"D", "e", "z", "e", "m", "b", "e", "r", " ", "2", "0", "2", "4", ",", " ", "J", "a", "n", "u", "a", "r", " ", "2", "0", "2", "5">>

\* name ends with tail, and nothing before the tail is a digit
EndsWithAfterName(name, tail) ==
    /\ Len(name) >= Len(tail)
    /\ SubSeq(name, Len(name) - Len(tail) + 1, Len(name)) = tail
    /\ \A i \in 1..(Len(name) - Len(tail)) : name[i] \notin Digits

\* the period segment that lists exactly the months among the dates of rows
MonthsSegment(rows) ==
    LET present == MonthsPresent(rows)
        years == SortedInts({ym[1] : ym \in present})
        months(y) == SortedInts({ym[2] : ym \in {p \in present : p[1] = y}})
        group(y) == Join(<<"_">>, [i \in DOMAIN months(y) |-> Pad2(months(y)[i])])
                      \o <<"_">> \o Pad4(y)
    IN  Join(<<"-", "-">>, [k \in DOMAIN years |-> group(years[k])])

FilenameListsRowMonths ==
    EndsWithAfterName(pdf_filename,
        <<"_">> \o MonthsSegment(pdf_bytes.rows) \o <<".", "p", "d", "f">>)

\* the command-line report: file name months are the months of its rows
CliFilenameListsRowMonths ==
    (selVia = "cli" /\ pdf_bytes.made) => FilenameListsRowMonths

\* the web report: file name months are the months of the rows in the PDF
WebFilenameListsRowMonths ==
    (selVia = "web" /\ pdf_bytes.made) => FilenameListsRowMonths

\* C15: the month segments of the file name are exactly the distinct months
\* of the rendered rows, in the command-line program and in the web
\* application; a month without rows between two months with rows is absent
C15_FilenameMonthsAreRowMonths ==
    CliFilenameListsRowMonths /\ WebFilenameListsRowMonths

StartsWith(name, head) ==
    Len(name) >= Len(head) /\ SubSeq(name, 1, Len(head)) = head

\* the client of the report is the special client, in whatever letter case
SpecialClient == Lower(Strip(choice_client)) = Lower(KleinereProjekte)

AllProjectsSelected == Range(selected_projects) = Range(projects_in_client)

\* the file name goes from the client segment straight to the period
NoProjectSegment ==
    LET head == <<"S", "t", "u", "n", "d", "e", "n", "a", "u", "f", "l", "i", "s", "t", "u", "n", "g", "_">> \o Underscored(Strip(choice_client)) \o <<"_">>
    IN  /\ StartsWith(pdf_filename, head)
        /\ pdf_filename[Len(head) + 1] \in Digits \cup {"."}

\* a project segment follows the client segment
ProjectSegment ==
    LET head == <<"S", "t", "u", "n", "d", "e", "n", "a", "u", "f", "l", "i", "s", "t", "u", "n", "g", "_">> \o Underscored(Strip(choice_client)) \o <<"_">>
    IN  /\ StartsWith(pdf_filename, head)
        /\ pdf_filename[Len(head) + 1] \notin Digits \cup {"."}

OrdinaryNaming ==
    IF AllProjectsSelected THEN NoProjectSegment ELSE ProjectSegment

\* the command-line report of an ordinary client
CliOmitsAllProjects ==
    (selVia = "cli" /\ pdf_filename # <<>> /\ ~SpecialClient) => OrdinaryNaming

\* the web report of an ordinary client
WebOmitsAllProjects ==
    (selVia = "web" /\ pdf_filename # <<>> /\ ~SpecialClient) => OrdinaryNaming

\* C16: for an ordinary client the file name has no project segment exactly
\* when all of the client's projects are selected, in the command-line
\* program and in the web application
C16_ProjectSegmentOmittedForAll ==
    CliOmitsAllProjects /\ WebOmitsAllProjects

\* the file name has no client segment: the first selected project follows
\* 'Stundenauflistung_' directly
SpecialNaming ==
    /\ selected_projects # <<>>
    /\ StartsWith(pdf_filename,
                  <<"S", "t", "u", "n", "d", "e", "n", "a", "u", "f", "l", "i", "s", "t", "u", "n", "g", "_">> \o Underscored(selected_projects[1]) \o <<"_">>)

\* the command-line report of the special client
CliSpecialClientNaming ==
    (selVia = "cli" /\ pdf_filename # <<>> /\ SpecialClient) => SpecialNaming

\* the web report of the special client
WebSpecialClientNaming ==
    (selVia = "web" /\ pdf_filename # <<>> /\ SpecialClient) => SpecialNaming

\* C17: for the special client 'Kleinere Projekte', in any letter case, the
\* file name has no client segment and a non-empty project segment, also
\* when all of its projects are selected, in the command-line program and
\* in the web application
C17_SpecialClientNaming ==
    CliSpecialClientNaming /\ WebSpecialClientNaming

\* t is 'MM[_MM...]_YYYY' with the months of a year ascending, or several
\* such groups with ascending years joined by '--'; months holds the months
\* read so far of the group being read, lastYear the year of the group before
RECURSIVE PeriodOk(_, _, _)
PeriodOk(t, months, lastYear) ==
    IF Len(t) >= 4 /\ IsDigits(SubSeq(t, 1, 4))
    THEN /\ months # <<>>
         /\ \A i \in DOMAIN months : months[i] \in 1..12
         /\ \A i \in 1..(Len(months) - 1) : months[i] < months[i + 1]
         /\ ToInt(SubSeq(t, 1, 4)) > lastYear
         /\ \/ Len(t) = 4
            \/ /\ Len(t) > 6
               /\ SubSeq(t, 5, 6) = <<"-", "-">>
               /\ PeriodOk(SubSeq(t, 7, Len(t)), <<>>, ToInt(SubSeq(t, 1, 4)))
    ELSE /\ Len(t) >= 3
         /\ IsDigits(SubSeq(t, 1, 2))
         /\ t[3] = "_"
         /\ PeriodOk(SubSeq(t, 4, Len(t)), Append(months, ToInt(SubSeq(t, 1, 2))),
                     lastYear)

\* the part of a file name from the first digit to the end
FromFirstDigit(name) ==
    LET digits == {i \in DOMAIN name : name[i] \in Digits}
    IN  IF digits = {} THEN <<>>
        ELSE SubSeq(name, CHOOSE i \in digits : \A j \in digits : i <= j, Len(name))

FilenameWellFormed ==
    LET stem == SubSeq(pdf_filename, 1, Len(pdf_filename) - 4)
        period == FromFirstDigit(stem)
    IN  /\ StartsWith(pdf_filename, <<"S", "t", "u", "n", "d", "e", "n", "a", "u", "f", "l", "i", "s", "t", "u", "n", "g", "_">>)
        /\ Len(pdf_filename) > 4
        /\ SubSeq(pdf_filename, Len(pdf_filename) - 3, Len(pdf_filename))
              = <<".", "p", "d", "f">>
        /\ \A i \in DOMAIN pdf_filename : pdf_filename[i] \notin {" ", "/"}
        /\ period # <<>>
        /\ stem[Len(stem) - Len(period)] = "_"
        /\ PeriodOk(period, <<>>, 0)

\* C18: every file name build_pdf_filename returns starts with
\* 'Stundenauflistung_', ends with '.pdf', has no space and no slash, and
\* its period is never empty: 'MM[_MM...]_YYYY' with ascending months, the
\* groups of several years joined by '--'
C18_FilenameWellFormed ==
    pdf_filename # <<>> => FilenameWellFormed

\* the example of the claim: client 'Acme', project 'Website', June 2025
FilenameExample ==
    /\ selected_projects = <<<<"W", "e", "b", "s", "i", "t", "e">>>>
    /\ pdf_filename = <<"S", "t", "u", "n", "d", "e", "n", "a", "u", "f", "l", "i", "s", "t", "u", "n", "g", "_", "A", "c", "m", "e", "_", "W", "e", "b", "s", "i", "t", "e", "_", "0", "6", "_", "2", "0", "2", "5", ".", "p", "d", "f">>

\* a file name over two years
FilenameTwoYears ==
    pdf_filename = <<"S", "t", "u", "n", "d", "e", "n", "a", "u", "f", "l", "i", "s", "t", "u", "n", "g", "_", "A", "c", "m", "e", "_", "W", "e", "b", "s", "i", "t", "e", "_", "1", "2", "_", "2", "0", "2", "4", "-", "-", "0", "1", "_", "2", "0", "2", "5", ".", "p", "d", "f">>

\* the sum of the durations shown in the rows of a document
RECURSIVE RenderedHours(_)
RenderedHours(rows) ==
    IF rows = <<>> THEN 0
    ELSE (IF Head(rows).duration.nan THEN 0 ELSE Head(rows).duration.hours)
           + RenderedHours(Tail(rows))

Stage ==
    IF ~authenticated THEN 0
    ELSE IF ~data_loaded THEN 1
    ELSE IF selPc # "confirmed" THEN 2
    ELSE IF pdf_bytes.made THEN 5
    ELSE IF editable_table # <<>> THEN 4
    ELSE 3

\* a step forward goes to the next stage
ForwardOneStage == [][Stage' > Stage => Stage' = Stage + 1]_vars

\* a step backward lands in PeriodPending or Unauthenticated, and is taken
\* from a ready report, where the reset buttons are
ResetsLandAtStart ==
    [][Stage' < Stage => (Stage' \in {0, 1} /\ pdf_bytes.made)]_vars

\* a report is ready only with confirmed rows
ReadyOnlyAfterRowsConfirmed == pdf_bytes.made => editable_table # <<>>

\* C20: the wizard moves forward one stage at a time through Unauthenticated,
\* PeriodPending, DataLoaded, ClientProjectSelected, RowsConfirmed and
\* ReportReady, no report is ready before the rows were confirmed, and every
\* other move is a reset that lands in PeriodPending or Unauthenticated
C20_WizardStagesInOrder ==
    /\ ForwardOneStage
    /\ ResetsLandAtStart
    /\ []ReadyOnlyAfterRowsConfirmed

(***************************************************************************)
(* Claims about the command-line program                                   *)
(***************************************************************************)
\* the process has ended with status n
ExitedWith(n) == cliPc \in {"exit", "uncaught"} /\ exit_status = n

\* a step at the period prompt in which a line that is no date was typed
InvalidDateTyped ==
    /\ cliPc = "choose_period"
    /\ raw_start' # NoInput
    /\ \/ to_iso_format(raw_start', FALSE, curYear) = ValueError
       \/ to_iso_format(raw_end', TRUE, curYear') = ValueError

\* a step at the client prompt in which neither 'x' nor a listed number or
\* name was typed
UnknownClientTyped ==
    /\ cliPc = "reports_loop"
    /\ selPc = "client_prompt"
    /\ choice_client' # NoInput
    /\ LET name_map == NameMap(ClientRecords(CleanClients(df_date)))
           choice == Strip(choice_client')
       IN  /\ Lower(choice) # <<"x">>
           /\ IF isdigit(choice)
              THEN ToInt(choice) \notin 1..Cardinality(DOMAIN name_map)
              ELSE Lower(choice) \notin DOMAIN name_map

\* a step at the project prompt in which a line was typed that names no
\* listed project
UnknownProjectTyped ==
    /\ cliPc = "reports_loop"
    /\ selPc = "project_prompt"
    /\ choice_project' # NoInput
    /\ filter_by_project_inter(projects_in_client, choice_project').kind
         = "continue"

\* C21: the command-line program exits with status 1 when the operator
\* enters an invalid date or an unknown client or project, and with status 0
\* on normal completion or explicit cancellation ('x')
C21_ExitStatusOfCli ==
    [][/\ (InvalidDateTyped \/ UnknownClientTyped \/ UnknownProjectTyped)
            => ExitedWith(1)'
       /\ (cliPc' = "exit") => (exit_status' = 0)]_vars

\* C22: in the interactive paths every error (an invalid date, an unknown or
\* empty selection, a transport or HTTP failure while loading entries) is
\* caught and leads back to a prompt; none ends the session with an uncaught
\* exception
C22_NoUncaughtExceptionAtPrompts ==
    [][(cliPc \in {"choose_period", "fetch", "reports_loop"})
         => (cliPc' # "uncaught")]_vars

(***************************************************************************)
(* Claims about the wizard's report and session                            *)
(***************************************************************************)
\* a run of the report page in which "Änderungen bestätigen" was pressed
\* on an editor emptied of its rows
EmptyTableConfirmed ==
    /\ selPc = "confirmed"
    /\ selPc' = "confirmed"
    /\ editable_table # <<>>
    /\ editable_table' = <<>>

\* C23: no report file or downloadable PDF is ever produced from an empty
\* row set: with no entries in the period, none for the chosen client and
\* projects, or no rows left in the edited table, the condition is reported
\* and generation is not reached
C23_NoPdfFromEmptyRows ==
    [][/\ pdf_bytes'.made => pdf_bytes'.rows # <<>>
       /\ EmptyTableConfirmed => ~pdf_bytes'.made]_vars

\* C24: after each press of "Änderungen bestätigen" the PDF offered for
\* download is generated from the row table (and manual row) confirmed by
\* that press, the first time and every later time; the cached pdf_bytes
\* never holds a document of an earlier confirmed table
C24_PdfIsOfConfirmedTable ==
    (selPc = "confirmed" /\ editable_table # <<>> /\ pdf_bytes.made)
      => pdf_bytes = RenderWithManualRow(
                         get_months_range_string(editable_table),
                         WebDataRows(editable_table),
                         TotalHours(editable_table), manual_row)

\* C25: whenever data_loaded is true the table in df_date was fetched for
\* the date range currently shown in the date input and in the overview;
\* changing the range after the load never leaves a report being built from
\* entries of the range confirmed before
C25_LoadedDataIsOfShownRange ==
    (data_loaded /\ DatesPass(date_range))
      => /\ web_request.start_iso
              = to_iso_format(StrftimeDashed(date_range[1]), FALSE, curYear).iso
         /\ web_request.end_iso
              = to_iso_format(StrftimeDashed(date_range[2]), TRUE, curYear).iso

\* C26: after "Neuer Zeitraum" or "Weitere Kunden" the next report starts
\* from a clean selection: while no document of the new report exists yet,
\* the session holds no manual extra row and no edited table of the report
\* before, and between the reset and the new load no project selection
C26_NextReportStartsClean ==
    (authenticated /\ ~pdf_bytes.made)
      => /\ manual_row = NoManual
         /\ editable_table = <<>>
         /\ ~data_loaded => selected_projects = <<>>

\* C27: after update_secrets_for_user(u) returned the new password p for an
\* existing user u, logging in at the web form as u with p succeeds and the
\* previous password no longer does; the api_key and workspace_id of u and
\* all other users' entries are unchanged, and the [users] and [auth]
\* entries of u hold the same hash
C27_RotatedPasswordLogsIn ==
    rotated.username # NoUsername =>
      LET u == rotated.username
          before == rotated.before
      IN  /\ login(secrets, u, rotated.raw).authenticated
          /\ \A q \in {"pw-a", "pw-b", "pw-n", "pw-m"} \ {rotated.raw} :
                ~login(secrets, u, q).authenticated
          /\ secrets.users[u].api_key = before.users[u].api_key
          /\ secrets.users[u].workspace_id = before.users[u].workspace_id
          /\ DOMAIN secrets.users = DOMAIN before.users
          /\ \A v \in DOMAIN before.users \ {u} :
                secrets.users[v] = before.users[v]
          /\ \A v \in DOMAIN before.auth \ {u} :
                v \in DOMAIN secrets.auth /\ secrets.auth[v] = before.auth[v]
          /\ secrets.users[u].password_hash = secrets.auth[u].password_hash

\* C28: a session is authenticated only after a login whose user name is in
\* the auth table and has an API entry; every fetch from the time-tracking
\* API happens in an authenticated session and uses the api_key and
\* workspace_id stored for that user name, never another user's or a
\* default user's; after "Beenden" the session holds no credentials and is
\* back at the login form
C28_FetchUsesSessionCredentials ==
    [][/\ (~authenticated /\ authenticated')
            => /\ session'.username \in DOMAIN secrets.auth
               /\ session'.username \in DOMAIN secrets.users
       /\ (web_request' # web_request)
            => /\ authenticated
               /\ session.username \in DOMAIN secrets.users
               /\ web_request'.api_key
                    = secrets.users[session.username].api_key
               /\ web_request'.workspace_id
                    = secrets.users[session.username].workspace_id
       /\ (authenticated /\ ~authenticated')
            => session' = NoSession]_vars

(***************************************************************************)
(* Claims about the period and the project prompt                          *)
(***************************************************************************)
\* the calendar day an ISO timestamp names, as a day number
IsoDay(iso) ==
    DayNumber(<<ToInt(SubSeq(iso, 1, 4)), ToInt(SubSeq(iso, 6, 7)),
                ToInt(SubSeq(iso, 9, 10))>>)

RECURSIVE ItemsFrom(_, _)
ItemsFrom(s, cur) ==
    LET done == IF cur = <<>> THEN <<>> ELSE <<cur>>
    IN  IF s = <<>> THEN done
        ELSE IF Head(s) \in {",", ".", " "}
        THEN done \o ItemsFrom(Tail(s), <<>>)
        ELSE ItemsFrom(Tail(s), Append(cur, Head(s)))

\* the listed projects an item names, by list number or by name
NamedBy(listed, item) ==
    IF isdigit(item)
    THEN {listed[i] : i \in {k \in DOMAIN listed : k = ToInt(item)}}
    ELSE {listed[i] : i \in {k \in DOMAIN listed : listed[k] = item}}

\* a line was read at the project prompt and it was not 'x'
ProjectLineRead ==
    /\ selVia = "cli"
    /\ selPc = "project_prompt"
    /\ choice_project' # NoInput
    /\ Lower(Strip(choice_project')) # <<"x">>

\* C30: filter_by_project_inter returns all listed projects on empty input,
\* and otherwise exactly the projects the operator named by name or by list
\* number, the items separated by comma, dot or space; it returns only a
\* non-empty list of names from the displayed list and prompts again on any
\* invalid number or unrecognised name
C30_ProjectPromptReturnsNamed ==
    [][ProjectLineRead =>
         LET items == ItemsFrom(Strip(choice_project'), <<>>)
             got == filter_by_project_inter(projects_in_client, choice_project')
         IN  IF Strip(choice_project') = <<>>
             THEN got = Return(projects_in_client)
             ELSE IF \/ items = <<>>
                     \/ \E i \in DOMAIN items :
                           NamedBy(projects_in_client, items[i]) = {}
             THEN got.kind = "continue" /\ selPc' = "project_prompt"
             ELSE /\ got.kind = "return"
                  /\ selected_projects' = got.list
                  /\ Range(got.list)
                       = UNION {NamedBy(projects_in_client, items[i]) :
                                   i \in DOMAIN items}]_vars

====
